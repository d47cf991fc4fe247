------------------------------ MODULE Reading -------------------------------
(***************************************************************************)
(* One streamed reading with the reader it really has: StreamPipeline,     *)
(* whose client becomes one of                                             *)
(*   "telegram"  stream_to_telegram of bot/helpers.rs, with its drafts     *)
(*   "whole"     collect_stream, for the plain answer of a profile         *)
(*   "sse"       the event stream of a profile or a chat turn              *)
(*   "picks"     the event stream of pick-date                             *)
(*   "socket"    handle_socket, the date-fortune socket                    *)
(* of which the first three read a wrapped stream, the last two the        *)
(* producer's own.  While a reader waits for something else (a frame to be *)
(* sent, a credential to be looked up, a draft to be posted) it does not   *)
(* take chunks.  An event stream is run by the connection when it polls    *)
(* the response's body: not before the first poll, and after each frame    *)
(* only once there is room for more.  The deadline of api/admission.rs is  *)
(* part of the same body and no help.                                      *)
(*                                                                         *)
(* A chunk is one frame: what Utf8ChunkDecoder carries over of characters  *)
(* cut in two is left out, and so are the texts that are sent without a    *)
(* model (LlmStream::completed).                                           *)
(*                                                                         *)
(* Time passes and other chats draft only beside a Telegram reading; they  *)
(* touch nothing the other readers share.                                  *)
(***************************************************************************)
EXTENDS StreamPipeline, DraftClock

CONSTANTS
  Kinds,        \* kinds of readers
  Chat,         \* the chat of a Telegram reading
  EditInterval  \* 1000 ms

ASSUME ReadingAssumption ==
  /\ Kinds \subseteq {"telegram", "whole", "sse", "picks", "socket"}
  /\ Chat \in Chats
  /\ EditInterval \in Nat \ {0}

VARIABLES
  kind,     \* the reader
  at,       \* what it is doing
  age,      \* time since last_edit, up to EditInterval
  pending,  \* text that no draft shows yet
  sent,     \* chunks the user was sent, in frames or in the final text
  told      \* how the reading ended, as the user was told

readerVars  == <<kind, at, age, pending, sent, told>>
readingVars == <<vars, draftVars, readerVars>>

ReadingTypeOK ==
  /\ kind \in Kinds
  /\ at \in {"start", "placing", "select", "frame", "check", "flush", "drafting", "last", "end"}
  /\ age \in 0..EditInterval
  /\ pending \in BOOLEAN
  /\ sent \in Seq(Chunks)
  /\ told \in {"nothing", "done", "interrupted", "empty", "revoked"}

EventStreams == {"sse", "picks"}
Framed       == kind \in EventStreams \cup {"socket"}

ReadingInit == /\ Init /\ DraftInit
               /\ kind \in Kinds
               /\ Wrapped = (kind \in {"telegram", "whole", "sse"})
               /\ at = IF kind = "whole" THEN "select" ELSE "start"
               /\ age = EditInterval
               /\ pending = FALSE
               /\ sent = <<>>
               /\ told = "nothing"

----------------------------------------------------------------------------
(* All readers *)

\* A Telegram reading drafts at once if the last draft is old enough.
TakeChunk == /\ at = "select" /\ Read
             /\ at' = CASE Framed -> "frame"
                        [] kind = "whole" -> "select"
                        [] kind = "telegram" -> IF age = EditInterval THEN "flush" ELSE "select"
             /\ pending' = (kind = "telegram")
             /\ UNCHANGED <<draftVars, kind, age, sent, told>>

EndOfChunks == /\ at = "select" /\ ReadAll
               /\ UNCHANGED <<draftVars, readerVars>>

Finish == /\ at = "select" /\ FinishOut
          /\ at' = "last"
          /\ UNCHANGED <<draftVars, kind, age, pending, sent, told>>

\* The last frame, the answer or the final messages.
Tell == /\ at = "last" /\ client \in {"ok", "error"}
        /\ told' = CASE client = "error" -> "interrupted"
                     [] client = "ok" /\ kind = "telegram" /\ got = <<>> -> "empty"
                     [] OTHER -> "done"
        /\ sent' = IF client = "ok" /\ kind \in {"telegram", "whole"} THEN got ELSE sent
        /\ at' = "end"
        /\ UNCHANGED <<vars, draftVars, kind, age, pending>>

\* Disconnect, Stop, a frame that cannot be sent, the deadline or shutdown.
Dropped == IF client \in {"recv", "finish"} THEN Disconnect ELSE UNCHANGED vars

Leave == /\ at # "end" /\ Droppable(Chat)
         /\ Dropped
         /\ Goto(Chat, Idle)
         /\ at' = "end"
         /\ UNCHANGED <<clock, draft_next_ms, granted, paused, kind, age, pending, sent, told>>

----------------------------------------------------------------------------
(* Event streams and the socket *)

\* What comes first: the address of the chart, the almanac, or nothing.
Begin == /\ at = "start" /\ Framed
         /\ at' = "select"
         /\ UNCHANGED <<vars, draftVars, kind, age, pending, sent, told>>

\* The connection has room for what is yielded next.
SendFrame == /\ at = "frame"
             /\ sent' = Append(sent, got[Len(got)])
             /\ at' = "select"
             /\ UNCHANGED <<vars, draftVars, kind, age, pending, told>>

\* The credential's interval, or a text frame within the rate.
Check == /\ at = "select" /\ kind = "socket" /\ client = "recv"
         /\ at' = "check"
         /\ UNCHANGED <<vars, draftVars, kind, age, pending, sent, told>>

CheckPasses == /\ at = "check"
               /\ at' = "select"
               /\ UNCHANGED <<vars, draftVars, kind, age, pending, sent, told>>

\* Only the interval's check says why.
CheckFails == /\ at = "check"
              /\ Disconnect
              /\ told' \in {"nothing", "revoked"}
              /\ at' = "end"
              /\ UNCHANGED <<draftVars, kind, age, pending, sent>>

----------------------------------------------------------------------------
(* Telegram *)

\* The placeholder does not count as an edit.
Place == /\ at = "start" /\ kind = "telegram" /\ Flush(Chat)
         /\ at' = "placing"
         /\ UNCHANGED <<vars, kind, age, pending, sent, told>>

Placed == /\ at = "placing" /\ At(Chat, "idle")
          /\ at' = "select"
          /\ UNCHANGED <<vars, draftVars, kind, age, pending, sent, told>>

Timer == /\ at = "select" /\ client = "recv" /\ pending /\ age = EditInterval
         /\ at' = "flush"
         /\ UNCHANGED <<vars, draftVars, kind, age, pending, sent, told>>

Draft == /\ at = "flush" /\ Flush(Chat)
         /\ at' = "drafting"
         /\ UNCHANGED <<vars, kind, age, pending, sent, told>>

\* A refused draft counts as an edit, too.
Drafted == /\ at = "drafting" /\ At(Chat, "idle")
           /\ at' = "select" /\ age' = 0 /\ pending' = FALSE
           /\ UNCHANGED <<vars, draftVars, kind, sent, told>>

MyDraft == DraftStep(Chat) /\ UNCHANGED <<vars, readerVars>>

OtherDraft(c) == /\ kind = "telegram" /\ at # "end" /\ c # Chat
                 /\ Flush(c) \/ DraftStep(c)
                 /\ UNCHANGED <<vars, readerVars>>

Tick == /\ kind = "telegram" /\ at # "end" /\ clock < MaxTime
        /\ clock' = clock + 1
        /\ age' = IF age < EditInterval THEN age + 1 ELSE age
        /\ UNCHANGED <<vars, draft_next_ms, call, granted, paused, kind, at, pending, sent, told>>

----------------------------------------------------------------------------

Produce == ProducerStep /\ UNCHANGED <<draftVars, readerVars>>
Wrap    == WrapperStep /\ UNCHANGED <<draftVars, readerVars>>
Over    == Ended /\ at = "end" /\ UNCHANGED <<draftVars, readerVars>>

ReaderStep == \/ TakeChunk \/ EndOfChunks \/ Finish \/ Tell
              \/ Begin \/ SendFrame \/ Check \/ CheckPasses \/ CheckFails
              \/ Place \/ Placed \/ Timer \/ Draft \/ Drafted \/ MyDraft

ReadingNext == \/ Produce \/ Wrap \/ ReaderStep \/ Leave \/ Tick \/ Over
               \/ \E c \in Chats : OtherDraft(c)

ReadingSpec == ReadingInit /\ [][ReadingNext]_readingVars

\* An event stream that waits for the client's connection.
Unpolled == kind \in EventStreams /\ at \in {"start", "frame"}

(* The tasks of the process are polled until they end; a request upstream, *)
(* a frame of the socket and a post have timeouts; a select does not pass  *)
(* over a chunk for ever.  Nobody has to leave, and nobody has to read an  *)
(* event stream: its frames have no timeout, nor has the wrapper's send.   *)
FairReading == /\ ReadingSpec
               /\ WF_readingVars(Produce) /\ WF_readingVars(Wrap)
               /\ WF_readingVars(ReaderStep /\ ~Unpolled)
               /\ SF_readingVars(TakeChunk) /\ SF_readingVars(EndOfChunks)

----------------------------------------------------------------------------

(* Whatever the transport, a user who is told the reading is complete was  *)
(* sent all of it in order, and where readings are kept it is in the       *)
(* history already; one who is told of an interruption can ask again,      *)
(* since nothing of it was kept; and nobody waits for a model that had     *)
(* nothing to say (handlers.rs:38-53, 329-343; helpers.rs:78-101).         *)
ToldTheTruth ==
  /\ told = "done" => /\ Complete(sent) /\ logged = "success"
                      /\ Wrapped => blank \/ persisted = sent
  /\ told = "interrupted" => logged = "failure" /\ persisted = <<>>
  /\ told # "empty"

(* Backpressure never wedges a reading: a slow user, a full channel, a     *)
(* refused or paused draft or a silent upstream end in both tasks and the  *)
(* reader being done.  There is one exception, an event stream that its    *)
(* client stops reading without closing the connection: it stays, with the *)
(* wrapper's send and the user's lane, but even then the model's answer    *)
(* and the permit for it do not (llm.rs:248; conversation.rs:105).         *)
PipelineEnds ==
  /\ <>(producer = "done")
  /\ <>(wrapper \in {"done", "none"} /\ at = "end") \/ <>[]Unpolled
=============================================================================
