------------------------------ MODULE ModuleLife ------------------------------
(***************************************************************************)
(* Loading and unloading the module: what phys_mem_init registers one      *)
(* after the other, what its error paths and phys_mem_cleanup undo, and    *)
(* the references that keep the module loaded.                             *)
(*                                                                         *)
(* The device can be opened as soon as cdev_add has made it known, long    *)
(* before init has ended.  A call that registers something, or undoes it,  *)
(* is a step.                                                              *)
(***************************************************************************)
EXTENDS Naturals

CONSTANT MaxRefs    \* bound: references to the module

MaxRefsOK == MaxRefs \in Nat \ {0}

VARIABLES
  module,   \* the state of the module: "absent", "coming", "live", "going"
  at,       \* what phys_mem_init or phys_mem_cleanup does next
  region,   \* is the range of device numbers registered?
  classes,  \* is a class "phys_mem" registered?
  class,    \* device_class: "ok", an error pointer "err", or not yet set
  devices,  \* is phys_mem_devices allocated?
  cdev,     \* is the character device in the kernel's map?
  node,     \* is there a device of the class, for udev?
  cache,    \* session_mem_cache # NULL
  refs      \* references to the module

lifeVars == <<module, at, region, classes, class, devices, cdev, node, cache,
              refs>>
registered == <<region, classes, class, devices, cdev, node, cache>>

Steps == {"-", "class", "kmalloc", "cdev", "node", "cache",
          "undo_class", "undo_cdev", "undo_devices", "undo_cache", "undo_region"}

Init ==
  /\ module = "absent" /\ at = "-"
  /\ region = FALSE /\ classes = FALSE /\ class = "-" /\ devices = FALSE
  /\ cdev = FALSE /\ node = FALSE /\ cache = FALSE /\ refs = 0

-----------------------------------------------------------------------------
(* phys_mem_init                                                           *)

(* insmod; register_chrdev_region succeeds. *)
Load ==
  /\ module = "absent"
  /\ module' = "coming" /\ at' = "class" /\ region' = TRUE
  /\ UNCHANGED <<classes, class, devices, cdev, node, cache, refs>>

(* class_create refuses a name that is taken.  Without a class init goes   *)
(* on, but udev will not hear of the device.                               *)
CreateClass ==
  /\ at = "class"
  /\ \/ ~classes /\ classes' = TRUE /\ class' = "ok"
     \/ class' = "err" /\ UNCHANGED classes
  /\ at' = "kmalloc"
  /\ UNCHANGED <<module, region, devices, cdev, node, cache, refs>>

AllocDevices ==
  /\ at = "kmalloc"
  /\ devices' = TRUE /\ at' = "cdev"
  /\ UNCHANGED <<module, region, classes, class, cdev, node, cache, refs>>

(* fail_malloc gives back the region, and leaves the class. *)
FailMalloc ==
  /\ at = "kmalloc"
  /\ region' = FALSE
  /\ module' = "absent" /\ at' = "-" /\ class' = "-"
  /\ UNCHANGED <<classes, devices, cdev, node, cache, refs>>

(* phys_mem_setup_cdev: a failure of cdev_add is logged, no more. *)
SetupCdev ==
  /\ at = "cdev"
  /\ cdev' \in BOOLEAN
  /\ at' = IF class = "ok" THEN "node" ELSE "cache"
  /\ UNCHANGED <<module, region, classes, class, devices, node, cache, refs>>

(* device_create succeeds: nobody looks at its result. *)
CreateDevice ==
  /\ at = "node"
  /\ node' = TRUE
  /\ at' = "cache"
  /\ UNCHANGED <<module, region, classes, class, devices, cdev, cache, refs>>

Cleanup == IF class = "ok" THEN "undo_class" ELSE "undo_cdev"

(* Mutant of CreateCache: a failure goes unnoticed. *)
CreateCacheUnchecked ==
  /\ at = "cache"
  /\ cache' \in BOOLEAN /\ module' = "live" /\ at' = "-"
  /\ UNCHANGED <<region, classes, class, devices, cdev, node, refs>>

CreateCache ==
  /\ at = "cache"
  /\ \/ cache' = TRUE /\ module' = "live" /\ at' = "-"
     \/ at' = Cleanup /\ UNCHANGED <<cache, module>>
  /\ UNCHANGED <<region, classes, class, devices, cdev, node, refs>>

-----------------------------------------------------------------------------
(* phys_mem_cleanup, called by init or by rmmod.                           *)

(* rmmod: the module goes only while nobody refers to it, and from then on *)
(* nobody gets a reference.                                                *)
Unload ==
  /\ module = "live" /\ refs = 0
  /\ module' = "going" /\ at' = Cleanup
  /\ UNCHANGED <<registered, refs>>

DestroyClass ==
  /\ at = "undo_class"
  /\ node' = FALSE /\ classes' = FALSE
  /\ at' = "undo_cdev"
  /\ UNCHANGED <<module, region, class, devices, cdev, cache, refs>>

(* Mutant of DelCdev: the devices are freed first. *)
DelCdevLate ==
  /\ at = "undo_cdev"
  /\ devices' = FALSE
  /\ at' = "undo_devices"
  /\ UNCHANGED <<module, region, classes, class, cdev, node, cache, refs>>

DelCdev ==
  /\ at = "undo_cdev"
  /\ cdev' = FALSE
  /\ at' = "undo_devices"
  /\ UNCHANGED <<module, region, classes, class, devices, node, cache, refs>>

FreeDevices ==
  /\ at = "undo_devices"
  /\ devices' = FALSE
  /\ at' = IF cache THEN "undo_cache" ELSE "undo_region"
  /\ UNCHANGED <<module, region, classes, class, cdev, node, cache, refs>>

DestroyCache ==
  /\ at = "undo_cache"
  /\ cache' = FALSE
  /\ at' = "undo_region"
  /\ UNCHANGED <<module, region, classes, class, devices, cdev, node, refs>>

(* Mutant of FreeRegion: the region stays registered. *)
FreeRegionNot ==
  /\ at = "undo_region"
  /\ module' = "absent" /\ at' = "-" /\ class' = "-" /\ refs' = 0
  /\ UNCHANGED <<region, classes, devices, cdev, node, cache>>

FreeRegion ==
  /\ at = "undo_region"
  /\ region' = FALSE
  /\ module' = "absent" /\ at' = "-" /\ class' = "-" /\ refs' = 0
  /\ UNCHANGED <<classes, devices, cdev, node, cache>>

-----------------------------------------------------------------------------
(* What open and release of the device do to the module.                   *)

Openable == cdev /\ module \in {"coming", "live"} /\ refs < MaxRefs

(* Mutant of GetModule: the operations of the device have no owner. *)
GetModuleNot == Openable /\ cache /\ UNCHANGED lifeVars

GetModule ==
  /\ Openable /\ cache
  /\ refs' = refs + 1
  /\ UNCHANGED <<module, at, registered>>

PutModule ==
  /\ refs > 0
  /\ refs' = refs - 1
  /\ UNCHANGED <<module, at, registered>>

(* kmem_cache_alloc of no cache: the task dies and keeps its reference. *)
OpenCrashes ==
  /\ Openable /\ ~cache
  /\ refs' = refs + 1
  /\ UNCHANGED <<module, at, registered>>

-----------------------------------------------------------------------------
Initialise == \/ Load \/ CreateClass \/ AllocDevices \/ FailMalloc \/ SetupCdev
              \/ CreateDevice \/ CreateCache

Uninitialise == \/ Unload \/ DestroyClass \/ DelCdev \/ FreeDevices \/ DestroyCache
                \/ FreeRegion

Next == Initialise \/ Uninitialise \/ OpenCrashes

-----------------------------------------------------------------------------
TypeOK ==
  /\ module \in {"absent", "coming", "live", "going"} /\ at \in Steps
  /\ class \in {"-", "ok", "err"}
  /\ {region, classes, devices, cdev, node, cache} \subseteq BOOLEAN
  /\ refs \in 0 .. MaxRefs

(* What the kernel can still reach has what it refers to: the structure of *)
(* the character device lies in phys_mem_devices, and its number in the    *)
(* region.  So the order in which phys_mem_cleanup undoes things is right, *)
(* also against opens that come in between.                                *)
Backed == cdev \/ node => devices /\ region

(* A load that failed and a module that is gone leave nothing behind,      *)
(* whichever step failed - but the class, which fail_malloc forgets.       *)
NothingLeft ==
  module = "absent" => ~(region \/ devices \/ cdev \/ node \/ cache)

(* Registering and undoing fit together: in the order, on every error path *)
(* of phys_mem_init, with the device in use meanwhile.                     *)
Registered == Backed /\ NothingLeft
=============================================================================
