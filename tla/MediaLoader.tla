----------------------------- MODULE MediaLoader -----------------------------
(***************************************************************************)
(* The media loaders of the GUI (src/gui/utils/medialoader.cpp):           *)
(* FileSharingLoader and CommonMediaLoader.  A loader sends requests to    *)
(* the core through Ui::core_dispatcher, which returns a fresh seq number; *)
(* the loader keeps the outstanding one in seq_ and answers to signals the *)
(* dispatcher broadcasts on the GUI thread, ignoring those with another    *)
(* seq.  A file-sharing load is a chain of requests (metainfo, preview    *)
(* size, image, file), each response issuing the next.                     *)
(*                                                                         *)
(* connectSignals() makes a new set of connections and keeps only the     *)
(* latest handles; disconnectSignals() cuts those handles.  A set made     *)
(* while the previous one was still live is therefore leaked: it stays    *)
(* connected, and an emission calls its slots before those of the handle.  *)
(* The model counts live connection sets (conns) and whether the stored    *)
(* handles are live (handle).                                              *)
(*                                                                         *)
(* The owner of the loader (not in this file) calls load, loadPreview,     *)
(* cancel and cancelPreview; OwnerInterrupts and RetryWithoutCancel say    *)
(* when it may start a new load.  The dispatcher answers each request     *)
(* once with a result or an error (an image request may first send its    *)
(* metadata) and may drop a request that was aborted.                      *)
(***************************************************************************)
EXTENDS Naturals, Sequences

CONSTANTS
    Kind,              \* "filesharing" or "common": the class of the loader
    LoadMetaModes,     \* values of loadMeta_ the loader may be built with
    OwnerInterrupts,   \* the owner may start a load while one is outstanding
    RetryWithoutCancel,\* the owner may start a load right after an error
    MaxCalls,          \* bound: owner calls in one behaviour
    MaxSeq             \* bound: seq numbers the dispatcher hands out

ASSUME /\ Kind \in {"filesharing", "common"}
       /\ LoadMetaModes \subseteq {"BeforePreview", "BeforeMedia", "OnlyForVideo", "None"}
       /\ OwnerInterrupts \in BOOLEAN
       /\ RetryWithoutCancel \in BOOLEAN
       /\ MaxCalls \in Nat /\ MaxSeq >= 3 * MaxCalls   \* a chain never runs out of seqs

VARIABLES
    mode,       \* loadMeta_ (constructor argument)
    isVideo,    \* isVideo_ (from the file id, in the FileSharingLoader constructor)
    seq,        \* seq_ (0: nothing outstanding)
    conns,      \* live connection sets of this loader
    handle,     \* the stored connection handles are live
    nextSeq,    \* the dispatcher's next seq number
    pending,    \* requests the core has not answered yet
    aborted,    \* seqs passed to abortSharedFileDownloading / cancelLoaderTask
    want,       \* owner: "none", "file" (after load) or "preview" (after loadPreview)
    results,    \* owner: terminal signals received since its last call
    lastResult, \* owner: the last of them
    calls       \* owner: calls made so far

vars == <<mode, isVideo, seq, conns, handle, nextSeq, pending, aborted, want, results, lastResult, calls>>

Seqs == 1..MaxSeq
ReqKinds == {"fsMeta", "fsPreviewSize", "fsFile", "image"}
Request == [seq: Seqs, kind: ReqKinds, preview: BOOLEAN, meta: BOOLEAN]
Results == {"fileLoaded", "previewLoaded", "error"}

TypeOK ==
    /\ mode \in LoadMetaModes /\ isVideo \in BOOLEAN
    /\ seq \in 0..MaxSeq
    /\ conns \in Nat /\ handle \in BOOLEAN
    /\ nextSeq \in 1..MaxSeq + 1
    /\ pending \subseteq Request /\ aborted \subseteq 0..MaxSeq
    /\ want \in {"none", "file", "preview"}
    /\ results \in Nat /\ lastResult \in Results \cup {"none"}
    /\ calls \in 0..MaxCalls

-----------------------------------------------------------------------------
(* One step of the loader and the dispatcher is computed on a record S of *)
(* the loader's and the dispatcher's state plus the signals the loader    *)
(* emitted (out); Commit writes it back.                                   *)
Cur == [seq |-> seq, conns |-> conns, handle |-> handle, next |-> nextSeq,
        pending |-> pending, out |-> <<>>]

Commit(S) ==
    /\ S.next <= MaxSeq + 1
    /\ seq' = S.seq /\ conns' = S.conns /\ handle' = S.handle
    /\ nextSeq' = S.next /\ pending' = S.pending

(* A Ui::GetDispatcher() request: a fresh seq, stored in seq_.            *)
Issue(S, kind, preview) ==
    [S EXCEPT !.seq = S.next, !.next = S.next + 1,
              !.pending = @ \cup {[seq |-> S.next, kind |-> kind, preview |-> preview, meta |-> FALSE]}]

Emit(S, r) == [S EXCEPT !.out = Append(@, r)]

(* connectSignals / disconnectSignals.                                    *)
ConnectSignals(S) == [S EXCEPT !.conns = @ + 1, !.handle = TRUE]

DisconnectSignals(S) == IF S.handle THEN [S EXCEPT !.conns = @ - 1, !.handle = FALSE] ELSE S

-----------------------------------------------------------------------------
(* FileSharingLoader slots. *)
OnPreviewMetainfo(S, s) ==
    IF S.seq # s THEN S ELSE Issue(S, "image", TRUE)

OnFileMetainfo(S, s) ==
    IF S.seq # s THEN S
    ELSE CASE mode \in {"BeforePreview", "OnlyForVideo"} -> Issue(S, "fsPreviewSize", FALSE)
           [] mode = "BeforeMedia" -> Issue(S, "fsFile", FALSE)
           [] OTHER -> S

OnPreviewDownloaded(S, s) ==
    IF S.seq # s THEN S
    ELSE DisconnectSignals(Emit([S EXCEPT !.seq = 0], "previewLoaded"))

(* Mutant: the seq_ check is dropped.                                     *)
OnFileDownloaded_NoSeqCheck(S, s) ==
    DisconnectSignals(Emit([S EXCEPT !.seq = 0], "fileLoaded"))

(* Mutant: the connections are kept after the file arrived.              *)
OnFileDownloaded_NoDisconnect(S, s) ==
    IF S.seq # s THEN S ELSE Emit([S EXCEPT !.seq = 0], "fileLoaded")

OnFileDownloaded(S, s) ==
    IF S.seq # s THEN S
    ELSE DisconnectSignals(Emit([S EXCEPT !.seq = 0], "fileLoaded"))

(* onFileError: neither resets seq_ nor disconnects.                       *)
OnFileError(S, s) ==
    IF S.seq = s THEN Emit(S, "error") ELSE S

(* CommonMediaLoader slots. *)
(* Mutant: the seq_ check is dropped.                                     *)
OnImageDownloaded_NoSeqCheck(S, s, preview) ==
    DisconnectSignals(Emit([S EXCEPT !.seq = 0], IF preview THEN "previewLoaded" ELSE "fileLoaded"))

OnImageDownloaded(S, s, preview) ==
    IF S.seq # s THEN S
    ELSE DisconnectSignals(Emit([S EXCEPT !.seq = 0],
                                IF preview THEN "previewLoaded" ELSE "fileLoaded"))

(* onImageMetaDownloaded stores the metadata (downloadLink_, sizes); none *)
(* of it changes which requests are made or which signals are emitted.    *)
OnImageMetaDownloaded(S, s) == S

(* Mutant: the error is swallowed.                                        *)
OnImageError_Silent(S, s) ==
    IF S.seq = s THEN DisconnectSignals(S) ELSE S

(* Mutant: the error is emitted without disconnecting.                    *)
OnImageError_NoDisconnect(S, s) ==
    IF S.seq = s THEN Emit(S, "error") ELSE S

OnImageError(S, s) ==
    IF S.seq = s THEN Emit(DisconnectSignals(S), "error") ELSE S

(* The slot a connection set of this loader runs for a signal; signals   *)
(* that the class does not connect to run nothing.                        *)
Slot(S, sig) ==
    IF Kind = "filesharing"
    THEN CASE sig.name = "fileDownloaded"   -> OnFileDownloaded(S, sig.seq)
           [] sig.name = "previewMetainfo"  -> OnPreviewMetainfo(S, sig.seq)
           [] sig.name = "fileMetainfo"     -> OnFileMetainfo(S, sig.seq)
           [] sig.name = "imageDownloaded"  -> OnPreviewDownloaded(S, sig.seq)
           [] sig.name = "fileSharingError" -> OnFileError(S, sig.seq)
           [] OTHER -> S
    ELSE CASE sig.name = "imageDownloaded"  -> OnImageDownloaded(S, sig.seq, sig.preview)
           [] sig.name = "imageMeta"        -> OnImageMetaDownloaded(S, sig.seq)
           [] sig.name = "imageError"       -> OnImageError(S, sig.seq)
           [] OTHER -> S

RECURSIVE RunSlots(_, _, _)
RunSlots(S, sig, n) == IF n = 0 THEN S ELSE RunSlots(Slot(S, sig), sig, n - 1)

(* An emission: the leaked connection sets, oldest first, then the set   *)
(* behind the stored handles unless a slot disconnected it meanwhile.     *)
Deliver(S, sig) ==
    LET S1 == RunSlots(S, sig, S.conns - (IF S.handle THEN 1 ELSE 0))
    IN  IF S.handle /\ S1.handle THEN Slot(S1, sig) ELSE S1
-----------------------------------------------------------------------------
(* The owner may start a load when nothing is outstanding, after a result *)
(* (after an error only if it retries without cancelling), or at any time *)
(* if it interrupts loads.                                                *)
CanStart ==
    \/ want = "none"
    \/ OwnerInterrupts
    \/ results > 0 /\ (lastResult # "error" \/ RetryWithoutCancel)

OwnerCall(w) ==
    /\ want' = w /\ results' = 0 /\ lastResult' = "none" /\ calls' = calls + 1

(* load(downloadPath).  FileSharingLoader asks for the metainfo first     *)
(* only in BeforeMedia mode; CommonMediaLoader downloads the image.       *)
LoadOf(S) ==
    IF Kind = "filesharing"
    THEN IF mode = "BeforeMedia" THEN Issue(S, "fsMeta", FALSE)
                                         ELSE Issue(S, "fsFile", FALSE)
    ELSE Issue(S, "image", FALSE)

Load ==
    /\ calls < MaxCalls /\ CanStart
    /\ Commit(LoadOf(ConnectSignals(Cur)))
    /\ OwnerCall("file")
    /\ UNCHANGED <<mode, isVideo, aborted>>

(* loadPreview().                                                         *)
LoadPreviewOf(S) ==
    IF Kind = "filesharing"
    THEN IF mode = "BeforePreview" \/ (mode = "OnlyForVideo" /\ isVideo)
            THEN Issue(S, "fsMeta", FALSE)
            ELSE Issue(S, "fsPreviewSize", FALSE)
    ELSE Issue(S, "image", TRUE)

LoadPreview ==
    /\ calls < MaxCalls /\ CanStart
    /\ Commit(LoadPreviewOf(ConnectSignals(Cur)))
    /\ OwnerCall("preview")
    /\ UNCHANGED <<mode, isVideo, aborted>>

(* cancel() and cancelPreview(): abort seq_ at the core, reset seq_,      *)
(* disconnect.  They differ only in the link passed along.                *)
Cancel ==
    /\ calls < MaxCalls
    /\ aborted' = aborted \cup {seq}
    /\ Commit(DisconnectSignals([Cur EXCEPT !.seq = 0]))
    /\ OwnerCall("none")
    /\ UNCHANGED <<mode, isVideo>>

(* The signals the dispatcher may emit for a request.                     *)
SignalsFor(q) ==
    CASE q.kind = "fsMeta"        -> {"fileMetainfo", "fileSharingError"}
      [] q.kind = "fsPreviewSize" -> {"previewMetainfo", "fileSharingError"}
      [] q.kind = "fsFile"        -> {"fileDownloaded", "fileSharingError"}
      [] q.kind = "image"         -> {"imageDownloaded", "imageError"}
                                     \cup (IF q.meta THEN {} ELSE {"imageMeta"})

(* The core answers request q: the dispatcher emits the signal on the GUI *)
(* thread and every connected slot runs before the step ends.             *)
Respond ==
    \E q \in pending : \E name \in SignalsFor(q) :
        LET rest == IF name = "imageMeta" THEN (pending \ {q}) \cup {[q EXCEPT !.meta = TRUE]}
                                          ELSE pending \ {q}
            S    == Deliver([Cur EXCEPT !.pending = rest],
                            [name |-> name, seq |-> q.seq, preview |-> q.preview])
        IN  /\ Commit(S)
            /\ results' = results + Len(S.out)
            /\ lastResult' = IF S.out = <<>> THEN lastResult ELSE S.out[Len(S.out)]
            /\ UNCHANGED <<mode, isVideo, aborted, want, calls>>

(* The core drops a request that was aborted.                             *)
CoreAbort ==
    /\ \E q \in pending : q.seq \in aborted /\ pending' = pending \ {q}
    /\ UNCHANGED <<mode, isVideo, seq, conns, handle, nextSeq, aborted, want, results, lastResult, calls>>

Init ==
    /\ mode \in LoadMetaModes /\ isVideo \in BOOLEAN
    /\ seq = 0 /\ conns = 0 /\ handle = FALSE
    /\ nextSeq = 1 /\ pending = {} /\ aborted = {}
    /\ want = "none" /\ results = 0 /\ lastResult = "none" /\ calls = 0

Next == Load \/ LoadPreview \/ Cancel \/ Respond \/ CoreAbort

(* The core answers every request it did not drop, and the dispatcher     *)
(* delivers every answer.  The owner's calls are not fair.                *)
Spec == Init /\ [][Next]_vars /\ WF_vars(Respond)

-----------------------------------------------------------------------------
(***************************************************************************)
(* Properties                                                              *)
(***************************************************************************)

(* Each load / loadPreview produces at most one of previewLoaded,         *)
(* fileLoaded and error, however the owner's calls, stale answers of      *)
(* earlier requests and leaked connection sets interleave.                *)
AtMostOneResult == results <= 1

(* A result answers the owner's latest call: nothing arrives after       *)
(* cancel, fileLoaded only after load and previewLoaded only after        *)
(* loadPreview, although answers to cancelled or superseded requests      *)
(* keep arriving (the seq_ filter).                                       *)
ResultMatchesCall ==
    /\ want = "none" => results = 0
    /\ lastResult = "fileLoaded" => want = "file"
    /\ lastResult = "previewLoaded" => want = "preview"

(* The loader never holds more than one set of connections to the        *)
(* dispatcher, so no slot runs twice for one emission.                    *)
NoLeakedConnections == conns <= 1

(* A load or loadPreview that is not cancelled or superseded is answered: *)
(* every chain of requests ends in a result or an error signal that the   *)
(* loader listens to.                                                     *)
ResultDelivered ==
    \A n \in 0..MaxCalls :
        (calls = n /\ want # "none" /\ results = 0) ~> (results > 0 \/ calls # n)
====
