--------------------------- MODULE MCStreamTrainer ---------------------------
(* Instances of StreamTrainer for TLC: batches of two prompts, each answered *)
(* twice, over three examples that come again in another order.             *)
EXTENDS StreamTrainer

CONSTANTS e1, e2, e3

MCExamples == {e1, e2, e3}
MCData == << <<e1, e2>>, <<e2, e3>>, <<e3, e1>> >>
=============================================================================
