-------------------------- MODULE MCPolicyIngestion --------------------------
(* Every text of up to three blocks of up to nine characters is chunked; two *)
(* uploads, two slots for requests and jobs, batches of two.                 *)
EXTENDS PolicyIngestion, PolicyChunker

MCTexts == UNION {[1 .. n -> 0 .. 9] : n \in 0 .. 3}

(* What becomes of them: of the numbers of chunks, those that make no       *)
(* batch, a short one, a full one and a second one; and any unsound text.    *)
MCOutcomes ==
    LET outcomes == {[drafts |-> Len(chunkPolicyText(text)), sound |-> Sound(text)] :
                        text \in MCTexts}
    IN  {outcome \in outcomes : outcome.drafts <= 3 \/ ~outcome.sound}
===============================================================================
