---------------------------- MODULE PhysMemLedger -----------------------------
(***************************************************************************)
(* PhysMem implements FrameLedger.  A frame is a session's while one of    *)
(* its statuses claims it or one of its VMAs shows it, so a frame that a   *)
(* reconfigured session still shows is still its own.                      *)
(***************************************************************************)
EXTENDS PhysMem

Owner(p) ==
  IF Claims(p) # {}        THEN <<"party", (CHOOSE c \in Claims(p) : TRUE)[1]>>
  ELSE IF Mappings(p) # {} THEN <<"party", vown[CHOOSE v \in Mappings(p) : TRUE]>>
  ELSE IF p \in kern       THEN <<"kernel">>
  ELSE IF p \in buddy      THEN <<"free">>
  ELSE <<"retired">>

Ledger == INSTANCE FrameLedger WITH
            Frame <- Page, Party <- Session,
            owner <- [p \in Page |-> Owner(p)]

(* No frame goes from one session to another, or between a session and the *)
(* rest of the kernel, without having been free: however claims, mappings, *)
(* forks, reconfigurations and releases interleave.  A session never gives *)
(* back a frame it still shows, and a frame marked bad never comes back.   *)
ImplementsLedger == Ledger!Spec
=============================================================================
