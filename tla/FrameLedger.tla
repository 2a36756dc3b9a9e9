----------------------------- MODULE FrameLedger ------------------------------
(***************************************************************************)
(* What the module promises about page frames, without sessions, locks,    *)
(* counts and free lists: who a frame belongs to.                          *)
(*                                                                         *)
(* A frame belongs to one owner at a time and changes hands only by way of *)
(* the free ones: nobody takes it from somebody else, and only its owner   *)
(* gives it back.  A bad frame is retired instead, and never comes back.   *)
(***************************************************************************)

CONSTANTS
  Frame,    \* page frames
  Party     \* those who claim frames

VARIABLE owner  \* whom each frame belongs to

Free     == <<"free">>
Kernel   == <<"kernel">>     \* the users of the page allocator
Retired  == <<"retired">>
Claimer(q) == <<"party", q>>

Taker == {Kernel} \cup {Claimer(q) : q \in Party}
Owner == Taker \cup {Free, Retired}

Init == owner = [f \in Frame |-> Free]

Unmoved(f) == owner'[f] = owner[f]

(* Frames that are free become the taker's. *)
Take(q) ==
  \A f \in Frame : Unmoved(f) \/ (owner[f] = Free /\ owner'[f] = q)

(* An owner lets go of some of its frames, and the bad ones are retired.   *)
GiveBack(q) ==
  \A f \in Frame : Unmoved(f) \/ (owner[f] = q /\ owner'[f] \in {Free, Retired})

(* Free frames turn out to be bad. *)
Retire ==
  \A f \in Frame : Unmoved(f) \/ (owner[f] = Free /\ owner'[f] = Retired)

Next == /\ owner' \in [Frame -> Owner]
        /\ \/ Retire
           \/ \E q \in Taker : Take(q) \/ GiveBack(q)

Spec == Init /\ [][Next]_owner
=============================================================================
