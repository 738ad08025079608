----------------------------- MODULE MCTCPStream -----------------------------
(***************************************************************************)
(* Instances of TCPStream: commands and answers that are shorter than, as  *)
(* long as and longer than the buffers.                                    *)
(***************************************************************************)
EXTENDS TCPStream

Commands_5_3_1_7 == <<5, 3, 1, 7>>
Answers_4_1_6_3 == <<4, 1, 6, 3>>
Commands_4_2_1 == <<4, 2, 1>>
Answers_1_4_2 == <<1, 4, 2>>
Commands_3_2 == <<3, 2>>
Answers_3_1 == <<3, 1>>

Minus1 == -1
Minus2 == -2
=============================================================================
