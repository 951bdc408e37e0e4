---------------------------- MODULE VirtioDevice ----------------------------
(***************************************************************************)
(* One VirtIO GPU (virtio.c 70-333, 578-1003): bringing it up, switching   *)
(* it off, refreshing it, and what is undone where each of them fails.     *)
(* A command (module Virtqueue) succeeds or not.                           *)
(***************************************************************************)
VARIABLES op, at,         \* "init", "refresh", "off" or "none", and its next step
          known,          \* the controller is in the table, common_cfg mapped
          valid, active,  \* kvc->valid, gpu->active
          mem,            \* allocations the controller points to
          status,         \* device_status: "reset", "driver", "features", "ok", "failed"
          queue,          \* the device has the addresses of the rings and may use them
          again           \* it was switched off once more when it was off

gpuVars == <<op, at, known, valid, active, mem, status, queue, again>>

Rings == "rings"          \* the descriptors and both rings
Map == "map"              \* desc_to_buf
Buffers == {"commands", "responses"}

Init ==
  /\ op = "none" /\ at = "" /\ known = FALSE /\ valid = FALSE /\ active = FALSE
  /\ mem = {} /\ again = FALSE /\ status \in {"reset", "ok"} /\ queue = FALSE

At(step) == at = step
Then(step) == at' = step /\ UNCHANGED op
Done == op' = "none" /\ at' = ""

\* virtio_destroy; the GPU core is never reserved.  The entry of the table is
\* given up with the pointer to desc_to_buf in it; gpu->active is not looked at.
Destroy ==
  /\ IF known THEN status' = "failed" ELSE UNCHANGED status
  /\ mem' = {}
  /\ valid' = FALSE /\ known' = FALSE /\ Done
  /\ UNCHANGED <<active, queue, again>>

Fails(step) == At(step) /\ Destroy

-----------------------------------------------------------------------------
Start ==
  /\ op = "none" /\ ~active
  /\ op' = "init" /\ at' = "map"
  /\ mem' = {} /\ known' = FALSE /\ valid' = FALSE /\ again' = FALSE
  /\ UNCHANGED <<active, status, queue>>

\* The capabilities, the BARs and their sizes.
MapBars == \/ At("map") /\ Then("reset") /\ known' = TRUE
              /\ UNCHANGED <<valid, active, mem, status, queue, again>>
           \/ Fails("map")

\* virtio_reset_device: a device in use is not reset; 10 s are the limit.
InUse == valid \/ active

ResetDone == status' = "driver" /\ queue' = FALSE

Reset ==
  \/ /\ op = "init" /\ At("reset") /\ ~InUse /\ ResetDone /\ Then("features")
     /\ UNCHANGED <<known, valid, active, mem, again>>
  \/ op = "init" /\ Fails("reset")

Features ==
  \/ /\ At("features") /\ ~InUse /\ status' = "features" /\ Then("queues")
     /\ UNCHANGED <<known, valid, active, mem, queue, again>>
  \/ Fails("features")

\* The rings are allocated and then desc_to_buf; both stay for virtio_destroy.
Queues ==
  \/ /\ At("queues") /\ ~InUse
     /\ mem' = mem \cup {Rings, Map} /\ queue' = TRUE
     /\ Then(IF op = "init" THEN "buffers" ELSE "ok")
     /\ UNCHANGED <<known, valid, active, status, again>>
  \/ Fails("queues")

SetupBuffers ==
  \/ /\ At("buffers") /\ ~InUse
     /\ mem' = mem \cup Buffers /\ Then("ok")
     /\ UNCHANGED <<known, valid, active, status, queue, again>>
  \/ Fails("buffers")

DriverOk ==
  \/ At("ok") /\ status' = "ok" /\ Then("info")
     /\ UNCHANGED <<known, valid, active, mem, queue, again>>
  \/ Fails("ok")

\* VIRTIO_GPU_CMD_GET_DISPLAY_INFO, and the framebuffer, whose size may change.
DisplayInfo ==
  \/ /\ At("info")
     /\ valid' = TRUE /\ active' = TRUE /\ mem' = mem \cup {"framebuffer"}
     /\ Done /\ UNCHANGED <<known, status, queue, again>>
  \/ Fails("info")

-----------------------------------------------------------------------------
(* virtio_switch_off: virtio_destroy_buffers and virtio_destroy_queues, but *)
(* desc_to_buf stays.  A device that cannot be reset is said to be in use.  *)

AfterReset == mem \ (Buffers \cup {Rings})
\* Mutant of IfNotReset: everything is freed before the outcome is known.
BeforeReset == AfterReset
IfNotReset == mem

SwitchOff ==
  /\ op = "none" /\ known
  /\ \/ valid' = FALSE /\ active' = FALSE /\ mem' = AfterReset /\ ResetDone
     \/ valid' = TRUE /\ active' = TRUE /\ mem' = IfNotReset /\ UNCHANGED <<status, queue>>
  /\ again' = (again \/ ~valid)
  /\ UNCHANGED <<op, at, known>>

-----------------------------------------------------------------------------
(* virtio_refresh with the flags of the buffers, and of the device.  A reset  *)
(* that times out is reported, and then ignored.                           *)

RefreshBuffers ==
  /\ op = "none" /\ known /\ valid
  /\ mem' = mem \cup Buffers
  /\ UNCHANGED <<op, at, known, valid, active, status, queue, again>>

RefreshDevice ==
  /\ op = "none" /\ known /\ valid
  /\ \/ valid' = FALSE /\ active' = FALSE /\ ResetDone
     \/ UNCHANGED <<valid, active, status, queue>>
  /\ mem' = mem \ {Rings}
  /\ op' = "refresh" /\ at' = "features"
  /\ UNCHANGED <<known, again>>

Next ==
  \/ Start \/ MapBars \/ Reset \/ Features \/ Queues \/ SetupBuffers \/ DriverOk
  \/ DisplayInfo \/ SwitchOff \/ RefreshBuffers \/ RefreshDevice

-----------------------------------------------------------------------------
(***************************************************************************)
(* A GPU that is offered (valid) has everything a command needs and the     *)
(* device knows the rings; a device that may use rings finds them allocated.*)
(* The exceptions: a second virtio_switch_off that cannot reset the device, *)
(* a refresh whose reset timed out, and a device told that it has failed.   *)
(****************************************************************************)
UsableMeansMapped ==
  /\ valid /\ op = "none" /\ ~again =>
       known /\ active /\ queue /\ status = "ok" /\ Buffers \cup {Rings, Map} \subseteq mem
  /\ queue /\ status # "failed" /\ ~(op = "refresh" /\ valid) => Rings \in mem
=============================================================================
