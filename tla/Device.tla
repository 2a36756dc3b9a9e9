-------------------------------- MODULE Device --------------------------------
(***************************************************************************)
(* The device as its users meet it: the life of the module (ModuleLife)    *)
(* and the calls on an open file (SessionCalls).  An open takes a          *)
(* reference to the module, the release of the file gives it back.         *)
(***************************************************************************)
EXTENDS Integers, FiniteSets

CONSTANTS Thread, Client, Process, Nobody, Requests, StatusSize, ReadSize,
          Offsets, MaxPos, MaxVmas, MaxRefs

VARIABLES module, at, region, classes, class, devices, cdev, node, cache, refs,
          mm, writer, fd, state, num, vmas, sem, f_pos, call, view

Life  == INSTANCE ModuleLife
Calls == INSTANCE SessionCalls

ASSUME PartsOK == Life!MaxRefsOK /\ Calls!ClientOK /\ Calls!SizesOK

lifeVars == <<module, at, region, classes, class, devices, cdev, node, cache,
              refs>>
callVars == <<mm, writer, fd, state, num, vmas, sem, f_pos, call, view>>
vars == <<lifeVars, callVars>>

Init == Life!Init /\ Calls!Init

(* phys_mem_open and phys_mem_release, with what the kernel does around    *)
(* them: chrdev_open gets the module, __fput puts it.                      *)
Open    == Life!GetModule /\ Calls!Open
Release == Calls!Release /\ Life!PutModule

Next == \/ Open \/ Release
        \/ Life!Next /\ UNCHANGED callVars
        \/ Calls!Next /\ UNCHANGED lifeVars

Spec == Init /\ [][Next]_vars

(* Threads in the kernel keep running, and those that wait for a semaphore *)
(* get it in the order in which they came.  Nobody has to start a call, to *)
(* send a signal, or to load or unload the module.                         *)
Fairness ==
  \A t \in Thread :
    /\ WF_vars(Calls!Continue(t) /\ UNCHANGED lifeVars)
    /\ SF_vars(Calls!Acquire(t) /\ UNCHANGED lifeVars)

FairSpec == Spec /\ Fairness

-----------------------------------------------------------------------------
TypeOK == Life!TypeOK /\ Calls!TypeOK

(* The properties of the parts: their comments, and what they are about,   *)
(* are in ModuleLife and SessionCalls.                                     *)
Registered       == Life!Registered
InArray          == Calls!InArray
WholeConfiguration == Calls!WholeConfiguration
CallsReturn      == Calls!CallsReturn

(* A session, from open to release, lives inside a loaded module and a     *)
(* cache: although the device can be opened before init has created the    *)
(* cache and while rmmod is waiting, the code and the memory of a session  *)
(* never go while a descriptor, a call or a VMA refers to it.  Once it is  *)
(* loaded no open fails to find the cache.                                 *)
SessionHasModule ==
  /\ state # "NONE" => module = "live" /\ cache /\ refs > 0
  /\ module = "live" => cache
=============================================================================
