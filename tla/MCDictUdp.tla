----------------------------- MODULE MCDictUdp -----------------------------
(* A dictionary for DictUdp with one word that is found and one that is    *)
(* not.                                                                    *)
EXTENDS DictUdp, TLC

MCDict == "ant" :> "insect" @@ "zzz" :> NotFound
=============================================================================
