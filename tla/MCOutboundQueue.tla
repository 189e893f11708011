--------------------------- MODULE MCOutboundQueue ---------------------------
(***************************************************************************)
(* One account with a tool's media and text, a voice note of core's and    *)
(* the pairing adapter's QR image, and a tool's text on an account that no *)
(* plugin instance serves.                                                 *)
(***************************************************************************)
EXTENDS OutboundQueue

CONSTANTS media, text, voice, qr, other, A, B, x, y

MCOriginOf == [c \in Calls |-> CASE c = voice -> "core" [] c = qr -> "pairing" [] OTHER -> "tool"]
MCKindOf == [c \in Calls |-> CASE c = media -> "media" [] c = voice -> "voice_note"
                               [] c = qr -> "photo" [] OTHER -> "text"]
MCTopicOf == [c \in Calls |-> IF c = other THEN B ELSE A]
MCToOf == [c \in Calls |-> IF c = text THEN y ELSE x]
=============================================================================
