-------------------------- MODULE MCInboundAttach --------------------------
(* A voice note delivered twice, an image with a question id in its        *)
(* caption, and two answers that quote one question.                       *)
EXTENDS InboundAttach

CONSTANTS a1, a2, i1, r1, r2, voice, image, answer, q1

MCMessageOf ==
  [d \in Deliveries |->
     CASE d \in {a1, a2} -> voice [] d = i1 -> image [] OTHER -> answer]
MCKindOf ==
  [d \in Deliveries |->
     CASE d \in {a1, a2} -> "audio" [] d = i1 -> "image" [] OTHER -> "text"]
MCQuoteOf == [d \in Deliveries |-> IF d \in {r1, r2} THEN q1 ELSE None]
=============================================================================
