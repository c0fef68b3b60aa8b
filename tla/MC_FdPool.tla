------------------------------ MODULE MC_FdPool ------------------------------
(* FdPool for TLC, with the abstract pool it implements.                  *)
EXTENDS FdPool, TLC

CONSTANTS t1, t2, t3, f1, f2, f3, f4

MCThreads == {t1, t2, t3}
MCFps == {f1, f2, f3, f4}

====
