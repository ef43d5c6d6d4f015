---------------------------- MODULE SourceSetup -----------------------------
(***************************************************************************)
(* How the direct sample source comes up and goes down: newDirectRTLSource *)
(* (receiver_source_direct_linux.go) opens and configures the SDR, tries   *)
(* the kernel ring, falls back to the reader thread of DirectRing, and     *)
(* undoes what it did when a step fails; NewReceiver (main.go) then lets   *)
(* the duty collar borrow the ring's pages or not.  Every step may fail.   *)
(*                                                                         *)
(* A resource is its name.  A resource released while it is not held, the  *)
(* double free or the use of a destroyed mutex, is recorded in misused.    *)
(***************************************************************************)
EXTENDS Integers, Sequences

CONSTANTS
  KernelRing,     \* -directkernelring: config.KernelRing
  CollarBlocks,   \* dutyCollarBlockCount, or 0 unless the scheduler is gated
  BatchBlocks,    \* decoder blocks of a batch
  SlotCounts,     \* slot counts the driver may report
  RingCount,      \* RTLAMR_DIRECT_RING_COUNT
  Attempts,       \* attempts to open the device node
  DetachFails     \* rtlsdr_detach_kernel_driver may fail

\* main.go: whole batches that cover the collar.
RetainBatches == (CollarBlocks + BatchBlocks - 1) \div BatchBlocks

OpenSteps == <<"alloc", "mutex", "cond", "device">>

\* The setters in their order; all but the sample rate and the centre
\* frequency are called only when their flag was given.
Required == {"samplerate", "centerfreq"}
ConfigSteps ==
  <<"xtalfreq", "freqcorrection", "samplerate", "centerfreq", "gainmode", "tunergain",
    "gainbyindex", "testmode", "agcmode", "directsampling", "offsettuning", "tunertype">>

KernelSteps == {"attach", "node", "info", "tables", "map", "start"}
StartSteps  == {"reset", "slots", "buffers", "thread"}
AfterConfig == "reset"

VARIABLES
  at,           \* the step about to be taken, or "ready", "failed", "closed"
  held,         \* resources held
  slotsPtr,     \* source->slots # NULL
  active,       \* source->kernel_ring_active
  started,      \* source->started
  attached,     \* the kernel driver owns interface zero
  slotCount,    \* source->kernel_slot_count
  mapped,       \* slots mapped so far
  buffers,      \* thread-ring buffers allocated so far
  attempt,      \* failed attempts to open the device node
  borrowed,     \* the collar borrows the source's pages (d.borrowRaw)
  cause,        \* steps that have failed
  misused       \* a resource was released while not held

ringVars == <<active, attached, slotCount, mapped>>
vars == <<at, held, slotsPtr, ringVars, started, buffers, attempt, borrowed, cause, misused>>

Init ==
  /\ at = "alloc" /\ held = {} /\ slotsPtr = FALSE
  /\ active = FALSE /\ started = FALSE /\ attached = TRUE
  /\ slotCount = 0 /\ mapped = 0 /\ buffers = 0 /\ attempt = 0
  /\ borrowed = FALSE /\ cause = {} /\ misused = FALSE

StepOf(steps, name) == CHOOSE i \in DOMAIN steps : steps[i] = name
Names(steps) == {steps[i] : i \in DOMAIN steps}
After(steps, name, last) ==
  IF name = steps[Len(steps)] THEN last ELSE steps[StepOf(steps, name) + 1]

\* Release resources that the code releases without a test.
Release(rs) == held' = held \ rs /\ misused' = (misused \/ ~(rs \subseteq held))

-----------------------------------------------------------------------------
(* rtlamr_direct_open: on failure it undoes the steps before.              *)
OpenStep(name) ==
  /\ at = name
  /\ held' = held \cup {name}
  /\ attached' = IF name = "device" THEN FALSE ELSE attached
  /\ at' = After(OpenSteps, name, ConfigSteps[1])
  /\ UNCHANGED <<slotsPtr, active, slotCount, mapped, started, buffers, attempt,
                 borrowed, cause, misused>>

Undone(name) == {OpenSteps[i] : i \in 1 .. (StepOf(OpenSteps, name) - 1)}

OpenFails(name) ==
  /\ at = name
  /\ Release(Undone(name))
  /\ at' = "failed" /\ cause' = cause \cup {name}
  /\ UNCHANGED <<slotsPtr, ringVars, started, buffers, attempt, borrowed>>

-----------------------------------------------------------------------------
Detached == attached' \in (IF active /\ DetachFails THEN BOOLEAN ELSE {attached /\ ~active})

(* rtlamr_direct_kernel_cleanup: STOP, unmap, free the tables, close the   *)
(* node and take interface zero back from the kernel driver.               *)
KernelCleanup ==
  /\ mapped' = 0 /\ slotCount' = 0 /\ active' = FALSE
  /\ Detached

(* rtlamr_direct_close: cancel, clean the ring up or join the thread, then *)
(* free everything.  free(NULL) is harmless, a dangling pointer is not.    *)
CloseSource ==
  /\ IF active THEN KernelCleanup ELSE UNCHANGED ringVars
  /\ buffers' = 0
  /\ Release({"device", "cond", "mutex", "alloc"}
             \cup (IF active THEN {"streaming", "node", "tables"} \cap held
                   ELSE IF started THEN {"thread"} ELSE {})
             \cup (IF slotsPtr THEN {"slots"} ELSE {}))
  /\ slotsPtr' = FALSE /\ started' = FALSE

\* newDirectRTLSource's fail: close the source and report the step.
FailClosed(name) ==
  /\ CloseSource
  /\ at' = "failed" /\ cause' = cause \cup {name}
  /\ UNCHANGED <<attempt, borrowed>>

(* The setters, tuner type and gain count last.                            *)
Configure(name) ==
  /\ at = name
  /\ at' = After(ConfigSteps, name, AfterConfig)
  /\ UNCHANGED <<held, slotsPtr, ringVars, started, buffers, attempt, borrowed, cause, misused>>

ConfigureFails(name) == at = name /\ FailClosed(name)

-----------------------------------------------------------------------------
(* rtlamr_direct_start.                                                    *)
Reset ==
  /\ at = "reset"
  /\ at' = IF KernelRing THEN "attach" ELSE "slots"
  /\ UNCHANGED <<held, slotsPtr, ringVars, started, buffers, attempt, borrowed, cause, misused>>

KernelStep(name, next) ==
  /\ at = name /\ at' = next
  /\ UNCHANGED <<slotsPtr, started, buffers, borrowed, cause, misused>>

Attach ==
  /\ KernelStep("attach", "node")
  /\ active' = TRUE /\ attached' = TRUE
  /\ UNCHANGED <<held, slotCount, mapped, attempt>>

OpenNode ==
  /\ KernelStep("node", "info")
  /\ held' = held \cup {"node"} /\ UNCHANGED <<ringVars, attempt>>

\* The node may appear late: ENOENT and EACCES are retried.
RetryNode ==
  /\ KernelStep("node", "node")
  /\ attempt < Attempts - 1 /\ attempt' = attempt + 1
  /\ UNCHANGED <<held, ringVars>>

\* The ring must hold the retained batches and two more.
AcceptGeometry(count) ==
  /\ KernelStep("info", "tables") /\ count >= RetainBatches + 2
  /\ slotCount' = count
  /\ UNCHANGED <<held, active, attached, mapped, attempt>>

AllocTables ==
  /\ KernelStep("tables", "map")
  /\ held' = held \cup {"tables"} /\ UNCHANGED <<ringVars, attempt>>

MapSlot ==
  /\ KernelStep("map", IF mapped + 1 = slotCount THEN "start" ELSE "map")
  /\ mapped' = mapped + 1
  /\ UNCHANGED <<held, active, attached, slotCount, attempt>>

StartRing ==
  /\ at = "start"
  /\ held' = held \cup {"streaming"} /\ started' = TRUE
  /\ at' = "adopt"
  /\ UNCHANGED <<slotsPtr, ringVars, buffers, attempt, borrowed, cause, misused>>

(* newDirectRTLSource checks the geometry of the running ring once more    *)
(* and takes over its mappings.                                            *)
AdoptRing ==
  /\ at = "adopt"
  /\ IF slotCount >= RetainBatches + 2 /\ mapped = slotCount
       THEN /\ at' = "collar"
            /\ UNCHANGED <<held, slotsPtr, ringVars, started, buffers, attempt,
                           borrowed, cause, misused>>
       ELSE FailClosed("adopt")

(* A kernel step fails: cleanup, then the thread ring.  A failed attach    *)
(* leaves interface zero with librtlsdr or, when that cannot claim it      *)
(* again, with nobody: in either case not with the kernel driver.          *)
KernelFails(name) ==
  /\ at = name
  /\ IF active THEN KernelCleanup ELSE UNCHANGED ringVars
  /\ held' = held \ {"node", "tables"}
  /\ at' = "slots" /\ cause' = cause \cup {name}
  /\ UNCHANGED <<slotsPtr, started, buffers, attempt, borrowed, misused>>

AllocSlots ==
  /\ at = "slots"
  /\ held' = held \cup {"slots"} /\ slotsPtr' = TRUE
  /\ at' = "buffers"
  /\ UNCHANGED <<ringVars, started, buffers, attempt, borrowed, cause, misused>>

AllocBuffer ==
  /\ at = "buffers"
  /\ buffers' = buffers + 1
  /\ at' = IF buffers' = RingCount THEN "thread" ELSE "buffers"
  /\ UNCHANGED <<held, slotsPtr, ringVars, started, attempt, borrowed, cause, misused>>

CreateThread ==
  /\ at = "thread"
  /\ held' = held \cup {"thread"} /\ started' = TRUE
  /\ at' = "collar"
  /\ UNCHANGED <<slotsPtr, ringVars, buffers, attempt, borrowed, cause, misused>>

\* A bug: the freed table's pointer stays.
ResetPointerKept == slotsPtr

ResetPointer == FALSE

(* The thread ring fails: free the slots and their buffers, then fail      *)
(* closes the source, which must not free them again.                      *)
StartFails(name) ==
  /\ at = name
  /\ IF name \in {"buffers", "thread"}
       THEN /\ held' = held \ {"slots"} /\ slotsPtr' = ResetPointer
            /\ buffers' = 0 /\ at' = "abort"
            /\ cause' = cause \cup {name}
            /\ UNCHANGED <<ringVars, started, attempt, borrowed, misused>>
       ELSE FailClosed(name)

StartAborted == at = "abort" /\ FailClosed("thread")

-----------------------------------------------------------------------------
(* NewReceiver: a source that keeps released batches mapped lends them to  *)
(* the collar; useBorrowedCollar refuses too few blocks.                   *)
RetainedInputBlocks == IF active THEN RetainBatches * BatchBlocks ELSE 0

ConfigureCollar ==
  /\ at = "collar"
  /\ IF RetainedInputBlocks > 0
       THEN /\ borrowed' = (RetainedInputBlocks >= CollarBlocks)
            /\ at' = IF borrowed' THEN "ready" ELSE "failed"
       ELSE borrowed' = FALSE /\ at' = "ready"
  /\ UNCHANGED <<held, slotsPtr, ringVars, started, buffers, attempt, cause, misused>>

\* Receiver.Close.
Close ==
  /\ at = "ready"
  /\ CloseSource
  /\ at' = "closed" /\ UNCHANGED <<attempt, borrowed, cause>>

Next ==
  \/ \E name \in Names(OpenSteps) : OpenStep(name) \/ OpenFails(name)
  \/ \E name \in Names(ConfigSteps) : Configure(name) \/ ConfigureFails(name)
  \/ Reset \/ Attach \/ OpenNode \/ RetryNode
  \/ \E count \in SlotCounts : AcceptGeometry(count)
  \/ AllocTables \/ MapSlot \/ StartRing \/ AdoptRing
  \/ \E name \in KernelSteps : KernelFails(name)
  \/ AllocSlots \/ AllocBuffer \/ CreateThread
  \/ \E name \in StartSteps : StartFails(name)
  \/ StartAborted \/ ConfigureCollar \/ Close

Spec == Init /\ [][Next]_vars /\ WF_vars(Next)
-----------------------------------------------------------------------------
Resources == Names(OpenSteps) \cup {"node", "tables", "streaming", "slots", "thread"}

TypeOK ==
  /\ held \subseteq Resources
  /\ slotsPtr \in BOOLEAN /\ active \in BOOLEAN /\ started \in BOOLEAN
  /\ attached \in BOOLEAN /\ borrowed \in BOOLEAN /\ misused \in BOOLEAN
  /\ slotCount \in {0} \cup SlotCounts /\ mapped \in 0 .. slotCount
  /\ buffers \in 0 .. RingCount /\ attempt \in 0 .. (Attempts - 1)

(* A source that failed to open or was closed holds nothing, whatever step *)
(* failed and whether or not the kernel ring had been tried before.        *)
NothingLeaked == at \in {"failed", "closed"} => held = {} /\ buffers = 0 /\ mapped = 0

(* No step releases what is already released: rtlamr_direct_start frees    *)
(* the slots when it fails and rtlamr_direct_close runs after it.          *)
NothingFreedTwice == ~misused /\ (slotsPtr => "slots" \in held)

(* "The optional module must never turn loss of its device node, ABI, or   *)
(* kernel-version match into loss of radio ingestion": a source fails only *)
(* when a step that does not need the module has failed.                   *)
ModuleOptional == at = "failed" => ~(cause \subseteq KernelSteps \cup {"adopt"})

(* Exactly one of the two rings streams, and the collar borrows pages only *)
(* from a mapped kernel ring that retains all its blocks.                  *)
OneRing ==
  at = "ready" =>
    /\ ("streaming" \in held) # ("thread" \in held)
    /\ borrowed => "streaming" \in held /\ mapped = slotCount
                   /\ (slotCount - 2) * BatchBlocks >= CollarBlocks

(* The state the source is left in, however far opening came.              *)
SetupClean == TypeOK /\ NothingLeaked /\ NothingFreedTwice /\ ModuleOptional /\ OneRing
=============================================================================
