----------------------------- MODULE MCTaskMgr -----------------------------
(***************************************************************************)
(* TaskMgr with the two rippers, the shell and a few free slots.           *)
(***************************************************************************)
EXTENDS TaskMgr, TLC

CONSTANTS ripper, reaper, shell, t1, t2, t3,   \* thread slots
          kp1, kp2, sh, p1, p2, p3             \* process slots

MCThreadSlot2 == {ripper, reaper, shell, t1}
MCThreadSlot3 == {ripper, reaper, shell, t1, t2}
MCThreadSlot4 == {ripper, reaper, shell, t1, t2, t3}
MCProcessSlot1 == {kp1, kp2, sh}
MCProcessSlot2 == {kp1, kp2, sh, p1}
MCProcessSlot3 == {kp1, kp2, sh, p1, p2}
MCProcessSlot4 == {kp1, kp2, sh, p1, p2, p3}
MCBoot == <<ripper, reaper, shell>>
MCBootOwner == [t \in ThreadSlot |-> CASE t = ripper -> kp1 [] t = reaper -> kp2 [] OTHER -> sh]
MCKernelProcess == {kp1, kp2}

MCThreadCalls == {"CreateThread", "ThreadExit", "JoinThread", "DetachThread", "Exit"}
MCProcessCalls == {"Exec", "Exit", "Abort", "Kill", "Wait"}

\* Nothing tells the slots that are free at boot apart.
MCSymmetry == Permutations({t1, t2, t3}) \cup Permutations({p1, p2, p3})
=============================================================================
