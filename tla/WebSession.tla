----------------------------- MODULE WebSession -----------------------------
(***************************************************************************)
(* The browser build (web/tc2000.js, web/nx88-worker.js, emu/web.c and the *)
(* input ring of emu/console.c).  The page starts a worker for each boot,  *)
(* throws the old one away, and keeps the disk images for the next; the    *)
(* worker instantiates the emulator, fetches the images and runs the       *)
(* machine, which gives the event loop a turn when it waits for a key and  *)
(* every so many instructions.  Between the two there are only messages.   *)
(*                                                                         *)
(* Bytes are the numbers 1, 2, 3 ... of this boot, typed or written: only  *)
(* which and in which order matters.  The line endings of the boot log,    *)
(* the layout of the page and the progress reports are left out.           *)
(***************************************************************************)
EXTENDS Naturals, Sequences, SequencesExt

CONSTANTS
  WEBIN_CAP,  \* bytes the ring holds (8192)
  OutCap,     \* bytes of output that are sent without waiting (8192)
  Impatient,  \* what may come before the machine runs: part of {"keys", "eof"}
  MaxBoots, MaxTyped, MaxWritten   \* bounds

ASSUME WebAssumption ==
  /\ WEBIN_CAP \in Nat \ {0} /\ OutCap \in Nat \ {0}
  /\ Impatient \subseteq {"keys", "eof"}
  /\ MaxBoots \in Nat /\ MaxTyped \in Nat /\ MaxWritten \in Nat

VARIABLES
  phase, running, images,   \* the page: what it shows, and the images it keeps
  boots,
  toWorker, toPage,         \* messages on their way
  worker,                   \* where the worker is
  files,                    \* the images it has been handed or has fetched
  Module, pendingInput,     \* emulator instantiated; keys from before that
  webin, webin_eof,         \* the ring
  outBuf,
  typed, eof,               \* bytes typed since the boot; the page has sent eof
  typedBeforeEof,
  got, gotEof,              \* what the guest has read
  written, screen           \* what it has written, and what is displayed

page == <<phase, running, images, boots>>
keys == <<typed, eof, typedBeforeEof>>
ring == <<webin, webin_eof>>
guest == <<got, gotEof, written>>
vars == <<page, toWorker, toPage, worker, files, Module, pendingInput, ring,
          outBuf, keys, guest, screen>>

Msg(type, data) == [type |-> type, data |-> data]
Upto(n) == [i \in 1 .. n |-> i]
Data(queue, type) ==
  FoldLeft(LAMBDA out, m : IF m.type = type THEN out \o m.data ELSE out,
           <<>>, queue)

TypeOK ==
  /\ phase \in {"idle", "loading", "running", "halted"}
  /\ {running, Module, webin_eof, eof, gotEof} \subseteq BOOLEAN
  /\ images \in {"none", "whole", "detached"}
  /\ files \in {"none", "whole", "detached"}
  /\ boots \in 0 .. MaxBoots
  /\ \A i \in 1 .. Len(toWorker) : toWorker[i].type \in {"start", "input", "eof"}
  /\ \A i \in 1 .. Len(toPage) :
       toPage[i].type \in {"out", "images", "running", "exit", "onerror"}
  /\ worker \in {"none", "new", "instantiating", "fetching", "guest", "asleep",
                 "over"}
  /\ {typed, typedBeforeEof} \subseteq 0 .. MaxTyped
  /\ written \in 0 .. MaxWritten
  /\ Len(webin) <= WEBIN_CAP /\ Len(outBuf) < OutCap
  /\ {pendingInput, webin, outBuf, got, screen} \subseteq Seq(Nat)

Init ==
  /\ phase = "idle" /\ running = FALSE /\ images = "none" /\ boots = 0
  /\ toWorker = <<>> /\ toPage = <<>>
  /\ worker = "none" /\ files = "none"
  /\ Module = FALSE /\ pendingInput = <<>>
  /\ webin = <<>> /\ webin_eof = FALSE
  /\ outBuf = <<>>
  /\ typed = 0 /\ eof = FALSE /\ typedBeforeEof = 0
  /\ got = <<>> /\ gotEof = FALSE /\ written = 0 /\ screen = <<>>

(***************************************************************************)
(* The page                                                                *)
(***************************************************************************)

(* A terminated worker's messages, in both directions, go with it.         *)
Terminated == toPage' = <<>> /\ running' = FALSE

(* The images go to the worker as a clone.  Mutated forms end in _mut:     *)
(* here they are transferred, and the page is left with nothing.           *)
Cloned == images

(* start: the Boot and Restart buttons, and reboot().                      *)
Start ==
  /\ boots < MaxBoots
  /\ boots' = boots + 1
  /\ Terminated
  /\ screen' = <<>>
  /\ phase' = "loading"
  /\ toWorker' = <<Msg("start", <<>>)>>
  /\ files' = images /\ images' = Cloned
  /\ worker' = "new" /\ Module' = FALSE /\ pendingInput' = <<>>
  /\ webin' = <<>> /\ webin_eof' = FALSE /\ outBuf' = <<>>
  /\ typed' = 0 /\ eof' = FALSE /\ typedBeforeEof' = 0
  /\ got' = <<>> /\ gotEof' = FALSE /\ written' = 0

(* stop(): what the page shows stays.                                      *)
Stop ==
  /\ worker # "none"
  /\ worker' = "none"
  /\ Terminated
  /\ toWorker' = <<>>
  /\ UNCHANGED <<phase, images, boots, files, Module, pendingInput, ring,
                 outBuf, keys, guest, screen>>

(* The machine runs, or this boot has nothing to fetch.                    *)
Patient == running \/ (worker \in {"new", "instantiating"} /\ files # "none")

(* A keystroke, a paste or send().                                         *)
Type ==
  /\ worker # "none"
  /\ Patient \/ "keys" \in Impatient
  /\ \E n \in 1 .. 2 :
       /\ typed + n <= MaxTyped
       /\ typed' = typed + n
       /\ toWorker' = Append(toWorker,
                             Msg("input", [i \in 1 .. n |-> typed + i]))
  /\ UNCHANGED <<page, toPage, worker, files, Module, pendingInput, ring,
                 outBuf, eof, typedBeforeEof, guest, screen>>

SendEof ==
  /\ worker # "none" /\ ~eof
  /\ running \/ "eof" \in Impatient
  /\ eof' = TRUE /\ typedBeforeEof' = typed
  /\ toWorker' = Append(toWorker, Msg("eof", <<>>))
  /\ UNCHANGED <<page, toPage, worker, files, Module, pendingInput, ring,
                 outBuf, typed, guest, screen>>

Receives(type) ==
  /\ toPage # <<>> /\ Head(toPage).type = type
  /\ toPage' = Tail(toPage)
  /\ UNCHANGED <<boots, toWorker, worker, files, Module, pendingInput, ring,
                 outBuf, keys, guest>>

ShowOut ==
  /\ Receives("out")
  /\ screen' = screen \o Head(toPage).data
  /\ UNCHANGED <<phase, running, images>>

KeepImages ==
  /\ Receives("images")
  /\ images' = "whole"
  /\ UNCHANGED <<phase, running, screen>>

ShowRunning ==
  /\ Receives("running")
  /\ running' = TRUE /\ phase' = "running"
  /\ UNCHANGED <<images, screen>>

(* ... and an error that nothing in the worker caught.                     *)
ShowHalted ==
  /\ \/ Receives("exit") /\ running' = FALSE
     \/ Receives("onerror") /\ UNCHANGED running
  /\ phase' = "halted"
  /\ UNCHANGED <<images, screen>>

(***************************************************************************)
(* The worker: loading                                                     *)
(***************************************************************************)
Post(msgs) == toPage' = toPage \o msgs

(* importScripts; if it throws, nothing catches it.                        *)
Import ==
  /\ worker = "new"
  /\ toWorker # <<>>
  /\ toWorker' = Tail(toWorker)
  /\ \/ worker' = "instantiating" /\ UNCHANGED toPage
     \/ worker' = "over" /\ Post(<<Msg("onerror", <<>>)>>)
  /\ UNCHANGED <<page, files, Module, pendingInput, ring, outBuf, keys, guest,
                 screen>>

(* start() rejects: createNx88 fails, or a download.                       *)
Reject_mut == worker' = "over" /\ UNCHANGED toPage

Reject == worker' = "over" /\ Post(<<Msg("exit", <<>>)>>)

LoadFails ==
  /\ worker \in {"instantiating", "fetching"}
  /\ Reject
  /\ UNCHANGED <<page, toWorker, files, Module, pendingInput, ring, outBuf,
                 keys, guest, screen>>

(* nx_web_push: what does not fit is dropped.                              *)
Pushed(q, bytes) ==
  FoldLeft(LAMBDA r, b : IF Len(r) < WEBIN_CAP THEN Append(r, b) ELSE r,
           q, bytes)

Flushed_mut == pendingInput' = <<>> /\ UNCHANGED webin

Flushed == webin' = Pushed(webin, pendingInput) /\ pendingInput' = <<>>

(* The keys held back go to the ring, and the machine starts.              *)
RunMachine(msgs) ==
  /\ Flushed
  /\ Post(msgs \o <<Msg("running", <<>>)>>)
  /\ worker' = "guest"

Instantiated ==
  /\ worker = "instantiating"
  /\ Module' = TRUE
  /\ IF files # "none"
       THEN RunMachine(<<>>)
       ELSE worker' = "fetching" /\ UNCHANGED <<webin, pendingInput, toPage>>
  /\ UNCHANGED <<page, toWorker, files, webin_eof, outBuf, keys, guest, screen>>

Fetched ==
  /\ worker = "fetching"
  /\ files' = "whole"
  /\ RunMachine(<<Msg("images", <<>>)>>)
  /\ UNCHANGED <<page, toWorker, Module, webin_eof, outBuf, keys, guest, screen>>

(***************************************************************************)
(* The worker: its event loop, when the machine lets it                    *)
(***************************************************************************)
AtLoop == worker \in {"instantiating", "fetching", "asleep", "over"}

TakeInput ==
  /\ AtLoop
  /\ toWorker # <<>> /\ Head(toWorker).type = "input"
  /\ toWorker' = Tail(toWorker)
  /\ IF Module
       THEN webin' = Pushed(webin, Head(toWorker).data) /\ UNCHANGED pendingInput
       ELSE pendingInput' = pendingInput \o Head(toWorker).data /\ UNCHANGED webin
  /\ UNCHANGED <<page, toPage, worker, files, Module, webin_eof, outBuf, keys,
                 guest, screen>>

TakeEof ==
  /\ AtLoop
  /\ toWorker # <<>> /\ Head(toWorker).type = "eof"
  /\ toWorker' = Tail(toWorker)
  /\ webin_eof' = (webin_eof \/ Module)
  /\ UNCHANGED <<page, toPage, worker, files, Module, pendingInput, webin,
                 outBuf, keys, guest, screen>>

Out(bytes) == IF bytes = <<>> THEN <<>> ELSE <<Msg("out", bytes)>>

(* The flush timer.                                                        *)
FlushOut ==
  /\ worker = "asleep" /\ outBuf # <<>>
  /\ Post(Out(outBuf)) /\ outBuf' = <<>>
  /\ UNCHANGED <<page, toWorker, worker, files, Module, pendingInput, ring,
                 keys, guest, screen>>

Wake ==
  /\ worker = "asleep"
  /\ worker' = "guest"
  /\ UNCHANGED <<page, toWorker, toPage, files, Module, pendingInput, ring,
                 outBuf, keys, guest, screen>>

(***************************************************************************)
(* The machine                                                             *)
(***************************************************************************)

(* emscripten_sleep, in web_getc or in the run loop.                       *)
Yield ==
  /\ worker = "guest"
  /\ worker' = "asleep"
  /\ UNCHANGED <<page, toWorker, toPage, files, Module, pendingInput, ring,
                 outBuf, keys, guest, screen>>

Reads ==
  /\ worker = "guest" /\ ~gotEof
  /\ webin # <<>>
  /\ got' = Append(got, Head(webin)) /\ webin' = Tail(webin)
  /\ UNCHANGED <<page, toWorker, toPage, worker, files, Module, pendingInput,
                 webin_eof, outBuf, keys, gotEof, written, screen>>

AtEndNever_mut == FALSE

AtEnd == webin = <<>> /\ webin_eof

ReadsEof ==
  /\ worker = "guest" /\ ~gotEof
  /\ AtEnd
  /\ gotEof' = TRUE
  /\ UNCHANGED <<page, toWorker, toPage, worker, files, Module, pendingInput,
                 ring, outBuf, keys, got, written, screen>>

Writes ==
  /\ worker = "guest" /\ written < MaxWritten
  /\ written' = written + 1
  /\ LET all == Append(outBuf, written + 1) IN
       IF Len(all) >= OutCap
         THEN Post(Out(all)) /\ outBuf' = <<>>
         ELSE outBuf' = all /\ UNCHANGED toPage
  /\ UNCHANGED <<page, toWorker, worker, files, Module, pendingInput, ring,
                 keys, got, gotEof, screen>>

LastWords_mut == <<>>

LastWords == Out(outBuf)

(* The machine halts, on its own or after the end of its input.            *)
Halts ==
  /\ worker = "guest"
  /\ worker' = "over"
  /\ Post(LastWords \o <<Msg("exit", <<>>)>>) /\ outBuf' = <<>>
  /\ UNCHANGED <<page, toWorker, files, Module, pendingInput, ring, keys,
                 guest, screen>>

Page == Start \/ Stop \/ Type \/ SendEof
Shows == ShowOut \/ KeepImages \/ ShowRunning \/ ShowHalted
Loads == Import \/ LoadFails \/ Instantiated \/ Fetched
Takes == TakeInput \/ TakeEof
Machine == Yield \/ Reads \/ ReadsEof \/ Writes \/ Halts

Next == Page \/ Shows \/ Loads \/ Takes \/ FlushOut \/ Wake \/ Machine

Spec == Init /\ [][Next]_vars

(* Both event loops handle their messages; downloads succeed or fail; the  *)
(* machine goes on, gives the loop its turns, reads its terminal between   *)
(* them, and halts once a read has returned the end of its input.          *)
FairSpec ==
  /\ Spec
  /\ WF_vars(Shows) /\ WF_vars(Loads)
  /\ SF_vars(Takes) /\ SF_vars(FlushOut) /\ WF_vars(Wake) /\ WF_vars(Yield)
  /\ SF_vars(Reads) /\ SF_vars(ReadsEof) /\ SF_vars(gotEof /\ Halts)

(***************************************************************************)
(* Properties                                                              *)
(***************************************************************************)

(* "Feed the guest as if it had been typed" (tc2000.js:265): wherever they *)
(* wait on their way, bytes keep the order they were typed in, none is     *)
(* missing unless more were typed than the ring holds, and the end of the  *)
(* input comes after the input: "a read() with nothing typed must WAIT"    *)
(* (console.c:63).  The ring never holds more than its capacity (TypeOK).  *)
OnTheirWay == got \o webin \o pendingInput \o Data(toWorker, "input")

EndAfterInput == gotEof /\ typed <= WEBIN_CAP => Len(got) >= typedBeforeEof

TypedInOrder ==
  /\ TypeOK /\ EndAfterInput
  /\ \A i \in 1 .. Len(OnTheirWay) - 1 : OnTheirWay[i] < OnTheirWay[i + 1]
  /\ typed <= WEBIN_CAP /\ worker # "none" => Len(OnTheirWay) = typed

(* The screen shows this machine's output from its first byte, without     *)
(* gaps, and all of it by the time the page says that it has halted.       *)
ScreenShowsAll ==
  /\ worker # "none" => screen \o Data(toPage, "out") \o outBuf = Upto(written)
  /\ phase = "halted" /\ worker # "none" => screen = Upto(written)

(* "The structured clone leaves the page's own copy intact and the machine *)
(* can be rebooted any number of times" (tc2000.js:233): a machine runs    *)
(* from whole images, and once the page has them nothing is downloaded.    *)
BootsFromImages ==
  /\ worker \in {"guest", "asleep"} => files = "whole"
  /\ worker = "fetching" => images = "none"

(* ... and a boot that is not abandoned ends in a running machine or says  *)
(* why not.                                                                *)
BootSettles ==
  /\ []BootsFromImages
  /\ phase = "loading" /\ worker # "none" ~> phase # "loading" \/ worker = "none"

(* "{type:'eof'} ^D at the transport level: end the session"               *)
(* (nx88-worker.js:11).                                                    *)
EofEndsSession == eof ~> phase = "halted" \/ worker = "none" \/ ~eof
=============================================================================
