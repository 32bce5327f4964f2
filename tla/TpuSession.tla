------------------------------ MODULE TpuSession ------------------------------
(***************************************************************************)
(* Inference on the Edge TPU, from session to session.                     *)
(*                                                                         *)
(* Between OpenDevice and the release of its context an application runs   *)
(* models.  EdgeTpuManager::Invoke remembers in a token and two entries    *)
(* whose parameters it has loaded into the device; this memory outlives    *)
(* the session, while the parameters are lost with the power.              *)
(* EdgeTpuExecutable::Invoke then works through the hints of an executable *)
(* and TpuDriver turns each into bulk transfers, any of which may fail.    *)
(* The module composes this with the bring-up of module EdgeTpuDfu.        *)
(*                                                                         *)
(* Sources: libs/tpu/edgetpu_manager.{h,cc}, libs/tpu/edgetpu_executable.cc,*)
(* libs/tpu/edgetpu_driver.cc, libs/tpu/usb_host_edgetpu.c,                *)
(* libs/tpu/edgetpu_op.cc.  The device's side of it is external.           *)
(***************************************************************************)
EXTENDS EdgeTpuDfu

CONSTANTS Packages,      \* the models an application runs
          TokenOf,       \* their caching tokens; 0: no parameter caching
          NoPackage      \* nullptr

ASSUME SessionAssumption == /\ TokenOf \in [Packages -> Nat]
                            /\ NoPackage \notin Packages

VARIABLES
  registered,   \* packages_: the packages RegisterPackage has made
  token,        \* current_parameter_caching_token_
  cached,       \* cached_packages_
  phase,        \* what Invoke is doing
  package,      \* the package it was called for
  slot,         \* the entry of cached_packages_ its loop has reached
  hints,        \* hints of the executable still to be worked off
  loadFailed,   \* the parameter caching executable returned an error
  held,         \* the device: packages whose parameters it holds
  stream,       \* the device: whether it is in step with the transfers
  unloaded      \* history: packages recorded as cached although the device has
                \* taken nothing for them

managerVars == <<registered, token, cached>>
invokeVars  == <<phase, package, slot, hints, loadFailed>>
deviceVars  == <<held, stream>>
sessionVars == <<managerVars, invokeVars, deviceVars, unloaded>>
vars        == <<dfuVars, sessionVars>>

Slots == 1..2
Hints == {"parameters", "instructions", "inputs", "outputs"}

SessionTypeOK ==
  /\ DfuTypeOK
  /\ registered \subseteq Packages
  /\ token \in {0} \cup {TokenOf[p] : p \in Packages}
  /\ cached \in [Slots -> Packages \cup {NoPackage}]
  /\ phase \in {"idle", "load", "search", "loadMore", "infer"}
  /\ package \in Packages \cup {NoPackage}
  /\ slot \in 1..3
  /\ hints \in Seq(Hints) /\ Len(hints) <= 3
  /\ loadFailed \in BOOLEAN
  /\ held \subseteq Packages
  /\ stream \in {"clean", "broken"}
  /\ unloaded \subseteq Packages

SessionInit ==
  /\ DfuInit
  /\ registered = {} /\ token = 0 /\ cached = [s \in Slots |-> NoPackage]
  /\ phase = "idle" /\ package = NoPackage /\ slot = 1 /\ hints = <<>>
  /\ loadFailed = FALSE
  /\ held = {} /\ stream = "clean" /\ unloaded = {}

----------------------------------------------------------------------------
(* RegisterPackage and Invoke, both under the manager's mutex              *)

\* The interpreter's Init; a package that fails its verification is not kept.
RegisterPackage(p) ==
  /\ phase = "idle" /\ p \notin registered
  /\ registered' = registered \cup {p}
  /\ UNCHANGED <<dfuVars, token, cached, invokeVars, deviceVars, unloaded>>

\* The hints of the two kinds of executable, in the order of their bitstream.
LoadHints  == <<"parameters", "instructions">>
InferHints == <<"instructions", "inputs", "outputs">>

Infer == phase' = "infer" /\ hints' = InferHints
Load(ph) == phase' = ph /\ hints' = LoadHints /\ loadFailed' = FALSE

\* Invoke up to the first executable.
InvokeAlone(p) ==
  /\ TokenOf[p] = 0
  /\ token' = 0 /\ unloaded' = {}
  /\ Infer
  /\ UNCHANGED <<registered, cached, slot, loadFailed>>

InvokeOther(p) ==
  /\ TokenOf[p] \notin {0, token}
  /\ cached' = [s \in Slots |-> NoPackage]
  /\ Load("load")
  /\ UNCHANGED <<registered, token, slot, unloaded>>

InvokeSame(p) ==
  /\ TokenOf[p] # 0 /\ TokenOf[p] = token
  /\ phase' = "search" /\ slot' = 1
  /\ UNCHANGED <<managerVars, hints, loadFailed, unloaded>>

\* The context outlives every interpreter (edgetpu_manager.h:44-45); the device may
\* have gone, which Invoke does not look at.
Invoke(p) ==
  /\ phase = "idle" /\ opener = "open" /\ p \in registered
  /\ package' = p
  /\ InvokeAlone(p) \/ InvokeOther(p) \/ InvokeSame(p)
  /\ UNCHANGED <<dfuVars, deviceVars>>

\* One round of the loop over cached_packages_.
Search ==
  /\ phase = "search"
  /\ \/ /\ slot \in Slots /\ cached[slot] \notin {package, NoPackage}
        /\ slot' = slot + 1
        /\ UNCHANGED <<phase, hints, loadFailed>>
     \/ /\ slot \in Slots /\ cached[slot] = NoPackage
        /\ Load("loadMore")
        /\ UNCHANGED slot
     \/ /\ slot \in Slots => cached[slot] = package
        /\ Infer
        /\ UNCHANGED <<slot, loadFailed>>
  /\ UNCHANGED <<dfuVars, managerVars, package, deviceVars, unloaded>>

\* The device has the parameters of packages of one token side by side.
Alongside(p) == {q \in held : TokenOf[q] = TokenOf[p]} \cup {p}

\* The device has taken the parameters of the package: the load went through, and the
\* device has not gone since.
Loaded == ~loadFailed /\ device = "tpu"

\* parameter_caching_exe()->Invoke has returned; its result is ignored.
FirstLoaded ==
  /\ phase = "load" /\ hints = <<>>
  /\ token' = TokenOf[package]
  /\ cached' = [cached EXCEPT ![1] = package]
  /\ unloaded' = IF Loaded THEN {} ELSE {package}
  /\ held' = IF Loaded THEN Alongside(package) ELSE held
  /\ Infer
  /\ UNCHANGED <<dfuVars, registered, package, slot, loadFailed, stream>>

MoreLoaded ==
  /\ phase = "loadMore" /\ hints = <<>>
  /\ cached' = [cached EXCEPT ![slot] = package]
  /\ slot' = slot + 1
  /\ phase' = "search"
  /\ unloaded' = IF Loaded THEN unloaded ELSE unloaded \cup {package}
  /\ held' = IF Loaded THEN Alongside(package) ELSE held
  /\ UNCHANGED <<dfuVars, registered, token, package, hints, loadFailed, stream>>

\* inference_exe()->Invoke has read the event, whose failure is ignored, and
\* laid out the outputs.  A package of its own overwrites what is cached.
Inferred ==
  /\ phase = "infer" /\ hints = <<>>
  /\ phase' = "idle" /\ package' = NoPackage
  /\ held' = IF TokenOf[package] = 0 THEN {} ELSE held
  /\ UNCHANGED <<dfuVars, managerVars, slot, hints, loadFailed, stream, unloaded>>

----------------------------------------------------------------------------
(* EdgeTpuExecutable::Invoke and the transfers of TpuDriver                *)

\* Header and data in chunks of 32 KB, or the outputs, went through.
Transferred ==
  /\ hints # <<>> /\ device = "tpu"
  /\ hints' = Tail(hints)
  /\ UNCHANGED <<dfuVars, managerVars, phase, package, slot, loadFailed, deviceVars, unloaded>>

\* A transfer is refused, fails or takes more than 200 ms: RETURN_IF_ERROR.  The
\* device may have taken a part of it, and then misreads what it is sent next.
TransferFailed ==
  /\ hints # <<>>
  /\ IF device = "tpu" THEN DfuFault ELSE UNCHANGED dfuFaults
  /\ hints' = <<>>
  /\ \/ /\ phase \in {"load", "loadMore"}
        /\ loadFailed' = TRUE
        /\ UNCHANGED <<phase, package>>
     \/ /\ phase = "infer"
        /\ phase' = "idle" /\ package' = NoPackage
        /\ UNCHANGED loadFailed
  /\ \/ stream' = "broken" /\ device = "tpu"
     \/ UNCHANGED stream
  /\ UNCHANGED <<taskVars, usbVars, mgrVars, managerVars, slot, held, unloaded>>

----------------------------------------------------------------------------

\* Mutant of ResetToken: the token is kept when the Edge TPU leaves the bus.
ResetTokenNever == UNCHANGED <<managerVars, unloaded>>

\* NotifyConnected(nullptr) takes no lock.
ResetToken ==
  /\ token' = IF connected /\ ~connected' THEN 0 ELSE token
  /\ unloaded' = IF connected /\ ~connected' THEN {} ELSE unloaded
  /\ UNCHANGED <<registered, cached>>

\* The device loses its parameters with its power.
ResetDevice ==
  /\ held' = IF device' = "tpu" THEN held ELSE {}
  /\ stream' = IF device' = "tpu" THEN stream ELSE "clean"

\* A step of the bring-up; no context is released in the middle of an Invoke.
BringUp ==
  /\ DfuNext
  /\ phase # "idle" => opener' = opener
  /\ ResetToken /\ ResetDevice
  /\ UNCHANGED invokeVars

Inference ==
  \/ \E p \in Packages : RegisterPackage(p) \/ Invoke(p)
  \/ Search \/ FirstLoaded \/ MoreLoaded \/ Inferred
  \/ Transferred \/ TransferFailed

SessionNext == BringUp \/ (Awake /\ Inference)

SessionSpec == SessionInit /\ [][SessionNext]_vars /\ DfuFairness

----------------------------------------------------------------------------

\* An inference that is about to return kTfLiteOk on a device that is there ran with the
\* parameters of its own package in it, whatever was run, closed, reopened or failed
\* before: as long as no more than two packages share a token, no transfer was cut off
\* since the device was opened, and Invoke had not recorded this very package as cached
\* although its load had failed or its device had gone (edgetpu_manager.cc:166-191).
RightParameters ==
  /\ phase = "infer" /\ hints = <<>>
  /\ TokenOf[package] # 0
  /\ device = "tpu" /\ stream = "clean" /\ package \notin unloaded
  => package \in held

====
