----------------------------- MODULE MCPipeline -----------------------------
(***************************************************************************)
(* Small instances of the pipeline.  Two uploads of the same bytes race,   *)
(* a third is refused at the gate; two slots share one process or live in  *)
(* two processes.                                                          *)
(***************************************************************************)
EXTENDS PipelineInv

CONSTANTS u1, u2, u3, w1, w2, s1, s2

ThreeUploads == {u1, u2, u3}
TwinsAndMalformed == [u \in ThreeUploads |-> IF u = u3 THEN "bad" ELSE "same"]

OneUpload == {u1}
OneContent == [u \in OneUpload |-> u]

OneProcess == [s \in {s1, s2} |-> w1]
TwoProcesses == [s \in {s1, s2} |-> IF s = s1 THEN w1 ELSE w2]
SingleSlot == [s \in {s1} |-> w1]
=============================================================================
