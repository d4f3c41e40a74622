--------------------------- MODULE MCTeacherClient ---------------------------
(* Instances of TeacherClient for TLC; two threads, one or two workers. *)
EXTENDS TeacherClient

CONSTANTS t1, t2, w1, w2

TwoThreads == {t1, t2}
OneServer == {w1}
TwoServers == {w1, w2}
=============================================================================
