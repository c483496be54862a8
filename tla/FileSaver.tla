------------------------------ MODULE FileSaver ------------------------------
(***************************************************************************)
(* Utils::FileSaver (src/gui/utils/medialoader.cpp 254-312): saves the     *)
(* media behind a link to a path through a MediaLoader, optionally         *)
(* re-encodes it as PNG on a worker thread, calls the user's callback and  *)
(* deletes itself with deleteLater().                                      *)
(*                                                                         *)
(* The loader is MediaLoader, owned by the saver: one load, no cancel,    *)
(* no retry.  Its fileLoaded and error signals run the saver's slots in   *)
(* the same emission.  It dies with the saver (loader_ is a unique_ptr     *)
(* member).  The saver may also be destroyed by its QObject parent at any *)
(* time; the PNG job holds a QPointer to it.                               *)
(***************************************************************************)
EXTENDS Naturals

CONSTANTS
    ExportAsPngChoices, \* values of the _exportAsPng argument
    Kind,               \* the loader save() builds: "filesharing" for a file-sharing url
    LoadMetaModes,      \* loadMeta_ of that loader
    MaxSeq              \* bound: seq numbers the dispatcher hands out

VARIABLES
    mode, isVideo, seq, conns, handle, nextSeq, pending, aborted,
    want, results, lastResult, calls,   \* the loader and the dispatcher
    exportAsPng, \* exportAsPng_
    job,         \* PNG job: "none", "worker" (queued on the pool), "main" (posted back)
    saveOk,      \* result of image.save in the job
    saver,       \* "alive", "deleting" (deleteLater pending), "deleted"
    callbacks,   \* callback_ invocations so far
    lateCallback \* callback_ ran on a deleted saver

L == INSTANCE MediaLoader WITH OwnerInterrupts <- FALSE, RetryWithoutCancel <- FALSE,
                               MaxCalls <- 1

loaderVars == <<mode, isVideo, seq, conns, handle, nextSeq, pending, aborted,
                want, results, lastResult, calls>>
saverVars == <<exportAsPng, job, saveOk, saver, callbacks, lateCallback>>
vars == <<loaderVars, saverVars>>

TypeOK ==
    /\ L!TypeOK
    /\ exportAsPng \in BOOLEAN
    /\ job \in {"none", "worker", "main"}
    /\ saveOk \in BOOLEAN
    /\ saver \in {"alive", "deleting", "deleted"}
    /\ callbacks \in Nat /\ lateCallback \in BOOLEAN

Live == saver # "deleted"

(* callback_(ok, path) followed by deleteLater(), n times; a callback     *)
(* through a dangling pointer is recorded.                                *)
FinishN(n) ==
    /\ callbacks' = callbacks + n
    /\ lateCallback' = (lateCallback \/ ~Live)
    /\ saver' = IF Live THEN "deleting" ELSE saver

Finish == FinishN(1)

Init ==
    /\ L!Init
    /\ exportAsPng \in ExportAsPngChoices
    /\ job = "none" /\ saveOk = FALSE
    /\ saver = "alive" /\ callbacks = 0 /\ lateCallback = FALSE

(* save(): build the loader for the link, connect fileLoaded and error,   *)
(* load.                                                                  *)
Save ==
    /\ calls = 0 /\ saver = "alive"
    /\ L!Load
    /\ UNCHANGED saverVars

(* Mutant: the callback is also run before the PNG export.              *)
OnSaved_CallbackFirst ==
    /\ IF exportAsPng THEN /\ job' = "worker" /\ Finish ELSE Finish /\ UNCHANGED job

(* onSaved(path): call back now, or queue the PNG job.                    *)
OnSaved ==
    IF exportAsPng THEN /\ job' = "worker" /\ UNCHANGED <<saver, callbacks, lateCallback>>
                   ELSE Finish /\ UNCHANGED job

(* onError(): call back with failure, once per error emitted.             *)
OnError(n) == FinishN(n)

(* The core answers a request of the loader while the saver (and so the   *)
(* loader) exists; the signals it makes the loader emit run the saver's  *)
(* slots.                                                                 *)
LoaderAnswers ==
    /\ Live
    /\ L!Respond
    /\ LET n == results' - results
       IN  CASE n = 0 -> UNCHANGED <<job, saver, callbacks, lateCallback>>
             [] lastResult' = "fileLoaded" -> OnSaved
             [] OTHER -> OnError(n) /\ UNCHANGED job
    /\ UNCHANGED <<exportAsPng, saveOk>>

(* Mutant: a failed image.save posts nothing back.                      *)
WorkerRun_DropFailure ==
    /\ job = "worker"
    /\ IF ~Live THEN job' = "none" /\ UNCHANGED saveOk
       ELSE \E ok \in BOOLEAN : saveOk' = ok /\ job' = IF ok THEN "main" ELSE "none"
    /\ UNCHANGED <<loaderVars, exportAsPng, saver, callbacks, lateCallback>>

(* The job on the thread pool: return if the QPointer is null, otherwise  *)
(* load, save as PNG (which may fail) and post the rest to the main       *)
(* thread.                                                                *)
WorkerRun ==
    /\ job = "worker"
    /\ IF ~Live THEN job' = "none" /\ UNCHANGED saveOk
       ELSE \E ok \in BOOLEAN : saveOk' = ok /\ job' = "main"
    /\ UNCHANGED <<loaderVars, exportAsPng, saver, callbacks, lateCallback>>

(* Mutant: the main-thread part does not test the QPointer.             *)
MainRun_NoGuard ==
    /\ job = "main" /\ job' = "none"
    /\ Finish
    /\ UNCHANGED <<loaderVars, exportAsPng, saveOk>>

(* The main-thread part: return if the QPointer is null; otherwise call   *)
(* back with success, or go through onError().                            *)
MainRun ==
    /\ job = "main" /\ job' = "none"
    /\ CASE ~Live  -> UNCHANGED <<saver, callbacks, lateCallback>>
         [] saveOk -> Finish
         [] OTHER  -> OnError(1)
    /\ UNCHANGED <<loaderVars, exportAsPng, saveOk>>

(* The event loop processes the DeferredDelete event.                     *)
DeferredDelete ==
    /\ saver = "deleting" /\ saver' = "deleted"
    /\ UNCHANGED <<loaderVars, exportAsPng, job, saveOk, callbacks, lateCallback>>

(* The QObject parent destroys the saver before it finished.              *)
ParentDeletes ==
    /\ saver = "alive" /\ saver' = "deleted"
    /\ UNCHANGED <<loaderVars, exportAsPng, job, saveOk, callbacks, lateCallback>>

Next == Save \/ LoaderAnswers \/ WorkerRun \/ MainRun \/ DeferredDelete \/ ParentDeletes

(* The owner calls save, the loader answers a load (MediaLoader's         *)
(* ResultDelivered for a load), the pool and the main loop run what is    *)
(* queued.  The parent's destruction is not fair.                         *)
Spec == Init /\ [][Next]_vars
        /\ WF_vars(Save) /\ WF_vars(LoaderAnswers) /\ WF_vars(WorkerRun)
        /\ WF_vars(MainRun) /\ WF_vars(DeferredDelete)

-----------------------------------------------------------------------------
(* callback_ runs at most once, and never after the saver is gone (the    *)
(* QPointer checks of the PNG job).                                       *)
CallbackOnceWhileAlive == callbacks <= 1 /\ ~lateCallback

(* Unless the parent destroys the saver first, the callback runs, on      *)
(* every path: plain save, error, PNG export that succeeds or fails.     *)
CallbackEventually == <>(callbacks = 1 \/ (callbacks = 0 /\ saver = "deleted"))
====
