----------------------------- MODULE ChatWidget -----------------------------
(***************************************************************************)
(* The assistant's panel in the web client: its store, the questions under *)
(* way, the transcript it loads, and what the visitor may do meanwhile.    *)
(* Each answer is streamed by a call of its own that goes on after the     *)
(* frame that ends it, after a stop, and after the panel is gone, and that *)
(* clears the flags of the store and of its panel when it ends, whosever   *)
(* they are by then.                                                       *)
(*                                                                         *)
(* A question and the message that takes its answer are one entry, by the  *)
(* number of the question; an answer is a number of pieces.  What the      *)
(* service does with a question is ChatTurns' and AgentTurn's: here it     *)
(* takes it into a thread or refuses it, and stores the answer.  Sources,  *)
(* ratings, scrolling and the nudge are left out.                          *)
(***************************************************************************)
EXTENDS Integers, FiniteSets

CONSTANTS
    MaxQuestions,      \* bounds the questions
    MaxClicks,         \* bounds what else the visitor does
    Pieces,            \* of an answer
    StreamsBreak       \* a call may break off

ASSUME WidgetAssumption ==
    /\ MaxQuestions \in Nat /\ MaxClicks \in Nat /\ Pieces \in Nat \ {0}
    /\ StreamsBreak \in BOOLEAN

Questions  == 1..MaxQuestions
NoQuestion == 0
NoThread   == 0
Threads    == Questions         \* a thread goes by the question that opened it

VARIABLES
    threadId, messages, isStreaming, error, unread, isOpen,   \* the store
    activeTool, abortRef,                                     \* the panel, while it is there
    send,                      \* the calls, one for each question
    loads,                     \* transcripts that are being fetched
    rows,                      \* what the service has of each question
    clicks,
    \* history
    cleared,                   \* the last question before the conversation was begun anew
    haunted,                   \* something of it was still to come then
    done,                      \* the answers that were announced whole
    overrun                    \* the entries a transcript was put over

widgetVars == <<threadId, messages, isStreaming, error, unread, isOpen, activeTool, abortRef,
                send, loads, rows, clicks, cleared, haunted, done, overrun>>
chatStoreVars == <<threadId, messages, isStreaming, error, unread, isOpen>>
chatPastVars  == <<cleared, haunted, done, overrun>>

Message  == [text   : 0..Pieces,
             typing : BOOLEAN,         \* isStreaming of the message
             ours   : BOOLEAN]         \* under the id its tokens are for
Stream   == [at     : {"unsent", "asked", "answering", "closing", "aborted", "over"},
             thread : Threads \cup {NoThread},
             here   : BOOLEAN,         \* its panel is the one on the screen
             pieces : 0..Pieces]       \* that have come
Unsent     == [at |-> "unsent", thread |-> NoThread, here |-> FALSE, pieces |-> 0]
NoMessages == [a \in {} |-> [text |-> 0, typing |-> FALSE, ours |-> FALSE]]
StoredTurn == [thread : Threads \cup {NoThread}, answered : BOOLEAN]
NoTurn     == [thread |-> NoThread, answered |-> FALSE]
Load       == [thread : Threads, read : BOOLEAN,
               shows  : SUBSET Questions, whole : SUBSET Questions]

WidgetTypeOK ==
    /\ threadId \in Threads \cup {NoThread}
    /\ DOMAIN messages \subseteq Questions /\ messages \in [DOMAIN messages -> Message]
    /\ isStreaming \in BOOLEAN /\ error \in BOOLEAN /\ isOpen \in BOOLEAN
    /\ unread \in 0..2 * MaxQuestions
    /\ activeTool \in BOOLEAN /\ abortRef \in Questions \cup {NoQuestion}
    /\ send \in [Questions -> Stream] /\ rows \in [Questions -> StoredTurn]
    /\ loads \subseteq Load
    /\ clicks \in 0..MaxClicks /\ cleared \in 0..MaxQuestions /\ haunted \in BOOLEAN
    /\ done \subseteq Questions /\ overrun \subseteq Questions
    \* A panel that is gone has no answer to stop, and the badge counts what came without it.
    /\ ~isOpen => abortRef = NoQuestion /\ ~activeTool
    /\ isOpen => unread = 0

WidgetInit ==
    /\ threadId = NoThread /\ messages = NoMessages
    /\ isStreaming = FALSE /\ error = FALSE /\ unread = 0 /\ isOpen = FALSE
    /\ activeTool = FALSE /\ abortRef = NoQuestion
    /\ send = [a \in Questions |-> Unsent] /\ loads = {} /\ rows = [a \in Questions |-> NoTurn]
    /\ clicks = 0
    /\ cleared = 0 /\ haunted = FALSE /\ done = {} /\ overrun = {}

-----------------------------------------------------------------------------
Listening     == {a \in Questions : send[a].at \in {"asked", "answering", "closing"}}
Underway == Listening \cup {a \in Questions : send[a].at = "aborted"}
Begun    == {a \in Questions : send[a].at # "unsent"}
Clicks   == clicks < MaxClicks /\ clicks' = clicks + 1

StreamMoved(a, at) == send' = [send EXCEPT ![a].at = at]

\* The panel looks for a transcript when it appears, and when the thread changes, unless
\* there are messages.
Looks(thread, shown) ==
    IF thread # NoThread /\ shown = {}
    THEN {[thread |-> thread, read |-> FALSE, shows |-> {}, whole |-> {}]} ELSE {}

-----------------------------------------------------------------------------
(* The visitor *)

OpenPanel ==
    /\ ~isOpen /\ Clicks
    /\ isOpen' = TRUE /\ unread' = 0
    /\ loads' = loads \cup Looks(threadId, DOMAIN messages)
    /\ UNCHANGED <<threadId, messages, isStreaming, error, activeTool, abortRef, send, rows>>
    /\ UNCHANGED chatPastVars

\* The panel goes, and with it its reference; what it refers to is taken back.
ClosePanel ==
    /\ isOpen /\ Clicks
    /\ isOpen' = FALSE
    /\ send' = [a \in Questions |-> [send[a] EXCEPT !.here = FALSE,
                                   !.at = IF a = abortRef THEN "aborted" ELSE @]]
    /\ activeTool' = FALSE /\ abortRef' = NoQuestion
    /\ UNCHANGED <<threadId, messages, isStreaming, error, unread, loads, rows>>
    /\ UNCHANGED chatPastVars

\* send: also a suggestion, and "Try again", which asks the last question once more.
Ask(a) ==
    /\ isOpen /\ ~isStreaming
    /\ Begun = 1..(a - 1)
    /\ messages' = [b \in DOMAIN messages \cup {a} |->
                       IF b = a THEN [text |-> 0, typing |-> TRUE, ours |-> TRUE]
                       ELSE messages[b]]
    /\ isStreaming' = TRUE /\ error' = FALSE
    /\ abortRef' = a
    /\ send' = [send EXCEPT ![a] = [at |-> "asked", thread |-> threadId, here |-> TRUE,
                                         pieces |-> 0]]
    /\ UNCHANGED <<threadId, unread, isOpen, activeTool, loads, rows, clicks>>
    /\ UNCHANGED chatPastVars

\* stop, but for its flags.
Stopped ==
    [a \in Questions |-> [send[a] EXCEPT !.at = IF a = abortRef THEN "aborted" ELSE @]]

Stop ==
    /\ isOpen /\ isStreaming /\ Clicks
    /\ send' = Stopped
    /\ isStreaming' = FALSE /\ activeTool' = FALSE /\ abortRef' = NoQuestion
    /\ UNCHANGED <<threadId, messages, error, unread, isOpen, loads, rows>>
    /\ UNCHANGED chatPastVars

\* "New chat": stop and resetThread.
NewChat ==
    /\ isOpen /\ Clicks
    /\ send' = Stopped
    /\ activeTool' = FALSE /\ abortRef' = NoQuestion
    /\ threadId' = NoThread /\ messages' = NoMessages
    /\ isStreaming' = FALSE /\ error' = FALSE
    /\ cleared' = Cardinality(Begun)
    /\ haunted' = (loads # {} \/ Listening \ {abortRef} # {})
    /\ UNCHANGED <<unread, isOpen, loads, rows, done, overrun>>

\* The page is loaded again: only the thread is kept.
LoadPage ==
    /\ Clicks
    /\ messages' = NoMessages
    /\ isStreaming' = FALSE /\ error' = FALSE /\ unread' = 0 /\ isOpen' = FALSE
    /\ activeTool' = FALSE /\ abortRef' = NoQuestion /\ loads' = {}
    /\ send' = [a \in Questions |-> [send[a] EXCEPT !.here = FALSE,
                                           !.at = IF a \in Underway THEN "over" ELSE @]]
    /\ done' = {}
    /\ UNCHANGED <<threadId, rows, cleared, haunted, overrun>>

-----------------------------------------------------------------------------
(* The answers *)

Ours(a) == a \in DOMAIN messages /\ messages[a].ours

\* finishAssistantMessage, on the message if it is still there.
FinishMessage(a) ==
    /\ messages' = IF Ours(a) THEN [messages EXCEPT ![a].typing = FALSE] ELSE messages
    /\ isStreaming' = FALSE
    /\ unread' = IF isOpen THEN unread ELSE unread + 1

\* The service takes the question into its thread, or a new one, and stores it.
Accept(a) ==
    /\ send[a].at = "asked"
    /\ LET t == IF send[a].thread = NoThread THEN a ELSE send[a].thread
       IN  /\ send' = [send EXCEPT ![a].at = "answering", ![a].thread = t]
           /\ rows' = [rows EXCEPT ![a].thread = t]
    /\ UNCHANGED chatStoreVars /\ UNCHANGED chatPastVars
    /\ UNCHANGED <<activeTool, abortRef, loads, clicks>>

\* The answer is stored before it is announced, and may be though nobody listens.
StoreAnswer(a) ==
    /\ rows[a].thread # NoThread /\ ~rows[a].answered
    /\ rows' = [rows EXCEPT ![a].answered = TRUE]
    /\ UNCHANGED chatStoreVars /\ UNCHANGED chatPastVars
    /\ UNCHANGED <<activeTool, abortRef, send, loads, clicks>>

\* appendToken finds the message by its id, if it is there.
Token(a) ==
    /\ send[a].at = "answering" /\ send[a].pieces < Pieces
    /\ send' = [send EXCEPT ![a].pieces = @ + 1]
    /\ messages' = IF Ours(a) THEN [messages EXCEPT ![a].text = @ + 1] ELSE messages
    /\ UNCHANGED <<threadId, isStreaming, error, unread, isOpen>>
    /\ UNCHANGED <<activeTool, abortRef, loads, rows, clicks>> /\ UNCHANGED chatPastVars

\* tool_start and tool_end; a panel that is gone shows nothing.
Tool(a) ==
    /\ send[a].at = "answering" /\ send[a].here
    /\ activeTool' = ~activeTool
    /\ UNCHANGED chatStoreVars /\ UNCHANGED chatPastVars
    /\ UNCHANGED <<abortRef, send, loads, rows, clicks>>

\* onDone; the answer itself, which the frame carries too, is not read.
AnswerDone(a) ==
    /\ send[a].at = "answering" /\ send[a].pieces = Pieces /\ rows[a].answered
    /\ StreamMoved(a, "closing")
    /\ threadId' = send[a].thread
    /\ FinishMessage(a)
    /\ loads' = IF isOpen /\ threadId' # threadId
                THEN loads \cup Looks(threadId', DOMAIN messages) ELSE loads
    /\ done' = done \cup {a}
    /\ UNCHANGED <<error, isOpen, activeTool, abortRef, rows, clicks>>
    /\ UNCHANGED <<cleared, haunted, overrun>>

\* onError: an error frame, or an answer that is no stream and holds nothing.
Failed(a) ==
    /\ send[a].at \in {"asked", "answering"}
    /\ StreamMoved(a, "closing")
    /\ error' = TRUE
    /\ FinishMessage(a)
    /\ UNCHANGED <<threadId, isOpen, activeTool, abortRef, loads, rows, clicks>>
    /\ UNCHANGED chatPastVars

\* Mutant: the end of a stream clears no flag.
ClearNoFlags(a) == UNCHANGED <<isStreaming, activeTool, abortRef>>

\* finally: the flag of the store, and those of the panel the question came from.
ClearFlags(a) ==
    /\ isStreaming' = FALSE
    /\ activeTool' = (activeTool /\ ~send[a].here)
    /\ abortRef' = IF send[a].here THEN NoQuestion ELSE abortRef

\* The stream ends, announced or not, or the call that was taken back is noticed.
End(a) ==
    /\ send[a].at \in {"closing", "aborted"} \/ (StreamsBreak /\ send[a].at = "answering")
    /\ StreamMoved(a, "over")
    /\ ClearFlags(a)
    /\ UNCHANGED <<threadId, messages, error, unread, isOpen, loads, rows, clicks>>
    /\ UNCHANGED chatPastVars

\* catch: the network fails, before the answer or within.
BreakOff(a) ==
    /\ StreamsBreak /\ a \in Listening
    /\ StreamMoved(a, "over")
    /\ error' = TRUE
    /\ FinishMessage(a)
    /\ activeTool' = (activeTool /\ ~send[a].here)
    /\ abortRef' = IF send[a].here THEN NoQuestion ELSE abortRef
    /\ UNCHANGED <<threadId, isOpen, loads, rows, clicks>>
    /\ UNCHANGED chatPastVars

-----------------------------------------------------------------------------
(* The transcript *)

ReadThread(l) ==
    /\ ~l.read
    /\ LET of == {a \in Questions : rows[a].thread = l.thread}
       IN  loads' = (loads \ {l}) \cup
               {[l EXCEPT !.read = TRUE, !.shows = of,
                          !.whole = {a \in of : rows[a].answered}]}
    /\ UNCHANGED chatStoreVars /\ UNCHANGED chatPastVars
    /\ UNCHANGED <<activeTool, abortRef, send, rows, clicks>>

\* fetchThreadMessages: refused, lost or empty, nothing happens; else it takes the place
\* of what is there by now.
TakeThread(l) ==
    /\ loads' = loads \ {l}
    /\ \/ l.read /\ l.shows # {}
          /\ messages' = [a \in l.shows |-> [text |-> IF a \in l.whole THEN Pieces ELSE 0,
                                             typing |-> FALSE, ours |-> FALSE]]
          /\ overrun' = overrun \cup (DOMAIN messages \ l.whole)
       \/ /\ StreamsBreak \/ (l.read /\ l.shows = {})
          /\ UNCHANGED <<messages, overrun>>
    /\ UNCHANGED <<threadId, isStreaming, error, unread, isOpen>>
    /\ UNCHANGED <<activeTool, abortRef, send, rows, clicks, cleared, haunted, done>>

-----------------------------------------------------------------------------
WidgetNext ==
    \/ OpenPanel \/ ClosePanel \/ Stop \/ NewChat \/ LoadPage
    \/ \E a \in Questions :
          \/ Ask(a) \/ Accept(a) \/ StoreAnswer(a) \/ Token(a) \/ Tool(a)
          \/ AnswerDone(a) \/ Failed(a) \/ End(a) \/ BreakOff(a)
    \/ \E l \in loads : ReadThread(l) \/ TakeThread(l)

WidgetSpec == WidgetInit /\ [][WidgetNext]_widgetVars
-----------------------------------------------------------------------------
(* What the panel promises *)

\* The visitor can always ask or stop: nothing shows as under way when nothing is.
NothingHangs == isStreaming \/ activeTool => Underway # {}

\* What was announced as whole shows, every piece of it, under its question, whatever was
\* stopped, closed, asked again or failed meanwhile; but for what a transcript that came
\* late was put over.
AnswersLand ==
    \A a \in done : a > cleared =>
        \/ a \in DOMAIN messages /\ messages[a].text = Pieces
        \/ a \in overrun

\* A new chat shows nothing of the one before it and goes on in no thread of it, unless
\* then a transcript was on its way, or an answer the panel could not take back.
NewChatIsNew ==
    ~haunted =>
        /\ \A a \in DOMAIN messages : a > cleared
        /\ threadId # NoThread => \E a \in Questions : a > cleared /\ send[a].thread = threadId

\* All three: what chat-panel.tsx and chat.store.ts keep between them.
ChatHolds == NothingHangs /\ AnswersLand /\ NewChatIsNew
=============================================================================
