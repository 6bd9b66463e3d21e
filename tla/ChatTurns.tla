----------------------------- MODULE ChatTurns -----------------------------
(***************************************************************************)
(* The turns of one chat thread of rag-svc and the memory they share.  A   *)
(* turn loads the last messages, the newest summary and the buyer's        *)
(* profile, answers (in one reply, or in a stream its client may leave),   *)
(* and only then stores its question, its answer and the profile, and,     *)
(* every so many messages, a new summary.  Each is a transaction of its    *)
(* own, and nothing keeps two turns of a thread apart.                     *)
(*                                                                         *)
(* A message is its position in the thread, a summary the positions whose  *)
(* content it was made from, a profile the number of the statement it was  *)
(* folded from.  Routing, retrieval, tools, wording and the frames that    *)
(* are kept for a replay are left out.                                     *)
(***************************************************************************)
EXTENDS Integers, FiniteSets

CONSTANTS
    Slots,             \* bounds the turns in progress
    MemorySpan,        \* RAG_MEMORY_WINDOW, in turns
    SummaryEvery,      \* SUMMARY_EVERY, in messages
    MaxMessages,       \* bounds the thread
    MaxOverlap,        \* bounds a thread whose turns have overlapped
    MaxStatements,     \* bounds what the buyer states
    StoreMayFail,      \* a transaction, or the summariser, may fail
    ClientsMayLeave

ASSUME ChatAssumption ==
    /\ MemorySpan \in Nat \ {0} /\ SummaryEvery \in Nat \ {0}
    /\ MaxMessages \in Nat /\ MaxOverlap \in 0..MaxMessages /\ MaxStatements \in Nat
    /\ StoreMayFail \in BOOLEAN /\ ClientsMayLeave \in BOOLEAN

Positions  == 1..MaxMessages
Statements == 0..MaxStatements             \* 0: nothing stated yet

VARIABLES
    count,             \* rows of chat_messages
    summary,           \* what the newest chat_summaries row covers
    profile,           \* the profile in chat_threads.metadata
    turn,              \* what each turn in progress carries
    stated,            \* history: the buyer's statements so far
    overlapped,        \* history: two turns have been in progress at once
    missed             \* history: summaries missed since the last one, 2 for good once it was 2

chatVars == <<count, summary, profile, turn, stated, overlapped, missed>>

ChatTurn == [at      : {"idle", "load", "answer", "question", "reply", "profile", "recount",
                        "summarise", "done"},
             streams : BOOLEAN,
             states  : Statements,         \* what this question states, 0 if nothing
             window  : SUBSET Positions,
             summary : SUBSET Positions,
             profile : Statements,
             own     : SUBSET Positions]   \* the messages it has stored
NoTurn == [at |-> "idle", streams |-> FALSE, states |-> 0, window |-> {}, summary |-> {},
           profile |-> 0, own |-> {}]

ChatTypeOK ==
    /\ count \in 0..MaxMessages
    /\ summary \subseteq 1..count
    /\ profile \in 0..stated
    /\ turn \in [Slots -> ChatTurn]
    /\ \A s \in Slots : turn[s].own \subseteq 1..count /\ Cardinality(turn[s].own) <= 2
    /\ stated \in Statements /\ overlapped \in BOOLEAN /\ missed \in 0..2

ChatInit ==
    /\ count = 0 /\ summary = {} /\ profile = 0
    /\ turn = [s \in Slots |-> NoTurn]
    /\ stated = 0 /\ overlapped = FALSE /\ missed = 0

-----------------------------------------------------------------------------
Underway   == {s \in Slots : turn[s].at # "idle"}
Proceed(s, label) == turn' = [turn EXCEPT ![s].at = label]
\* The last positions of the thread, as many as a window holds.
Recent     == {i \in 1..count : i > count - 2 * MemorySpan}
should_summarise == count > 2 * MemorySpan /\ count % SummaryEvery = 0

\* post_message: the question may state what the buyer wants.
PostMessage(s, streams, states) ==
    /\ turn[s].at = "idle"
    /\ LET most == IF overlapped \/ Underway # {} THEN MaxOverlap ELSE MaxMessages
       IN  count + 2 * Cardinality(Underway) + 2 <= most
    /\ states \in {0, stated + 1} /\ states <= MaxStatements
    /\ stated' = IF states = 0 THEN stated ELSE states
    /\ turn' = [turn EXCEPT ![s] = [NoTurn EXCEPT !.at = "load", !.streams = streams,
                                                  !.states = states]]
    /\ overlapped' = (overlapped \/ Underway # {})
    /\ UNCHANGED <<count, summary, profile, missed>>

\* Any step that raises is logged and ends the turn.
GivesUp(s) == StoreMayFail /\ Proceed(s, "done")

\* load_memory: window, summary and profile, with this question's statement folded in.
LoadMemory(s) ==
    /\ turn[s].at = "load"
    /\ \/ turn' = [turn EXCEPT ![s].at = "answer", ![s].window = Recent, ![s].summary = summary,
                 ![s].profile = IF turn[s].states # 0 THEN turn[s].states ELSE profile]
       \/ GivesUp(s)
    /\ UNCHANGED <<count, summary, profile, stated, overlapped, missed>>

\* A stream that breaks off is stored like any other reply.
Generate(s) ==
    /\ turn[s].at = "answer"
    /\ Proceed(s, "question") \/ GivesUp(s)
    /\ UNCHANGED <<count, summary, profile, stated, overlapped, missed>>

\* A client that leaves its stream ends the turn where it stands.
Leave(s) ==
    /\ ClientsMayLeave
    /\ turn[s].at \notin {"idle", "done"} /\ turn[s].streams
    /\ turn' = [turn EXCEPT ![s] = NoTurn]
    /\ UNCHANGED <<count, summary, profile, stated, overlapped, missed>>

-----------------------------------------------------------------------------
(* _persist *)

SummaryMissed(n) == n > 2 * MemorySpan /\ n % SummaryEvery = 0 /\ summary # {} /\ n \notin summary
Grown == /\ count' = count + 1
         /\ missed' = IF SummaryMissed(count) /\ missed < 2 THEN missed + 1 ELSE missed

AddQuestion(s) ==
    /\ turn[s].at = "question"
    /\ \/ /\ Grown
          /\ turn' = [turn EXCEPT ![s].own = {count + 1}, ![s].at = "reply"]
       \/ GivesUp(s) /\ UNCHANGED <<count, missed>>
    /\ UNCHANGED <<summary, profile, stated, overlapped>>

AddReply(s) ==
    /\ turn[s].at = "reply"
    /\ \/ /\ Grown
          /\ turn' = [turn EXCEPT ![s].own = @ \cup {count + 1}, ![s].at = "profile"]
       \/ GivesUp(s) /\ UNCHANGED <<count, missed>>
    /\ UNCHANGED <<summary, profile, stated, overlapped>>

\* persist_profile writes the profile this turn loaded, an empty one is left alone,
\* and a failure is only logged.  The tool calls and the thread's title are stored
\* just before it, and if they fail the turn gives up.
PersistProfile(s) ==
    /\ turn[s].at = "profile"
    /\ \/ /\ profile' = IF turn[s].profile = 0 THEN profile ELSE turn[s].profile
          /\ Proceed(s, "recount")
       \/ StoreMayFail /\ Proceed(s, "recount") /\ UNCHANGED profile
       \/ GivesUp(s) /\ UNCHANGED profile
    /\ UNCHANGED <<count, summary, stated, overlapped, missed>>

Recount(s) ==
    /\ turn[s].at = "recount"
    /\ \/ Proceed(s, IF should_summarise THEN "summarise" ELSE "done")
       \/ GivesUp(s)
    /\ UNCHANGED <<count, summary, profile, stated, overlapped, missed>>

\* A summary makes up for the one before it, never for two.
Caught == IF missed = 2 THEN 2 ELSE 0

\* Mutant: the previous summary is not handed to the summariser.
SummariseAfresh(s) ==
    /\ turn[s].at = "summarise"
    /\ summary' = turn[s].window \cup turn[s].own
    /\ missed' = Caught
    /\ Proceed(s, "done")
    /\ UNCHANGED <<count, profile, stated, overlapped>>

\* refresh_summary: from the window and the summary that were loaded, and the
\* turn's own two messages.
Summarise(s) ==
    /\ turn[s].at = "summarise"
    /\ \/ /\ summary' = turn[s].summary \cup turn[s].window \cup turn[s].own
          /\ missed' = Caught
       \/ StoreMayFail /\ UNCHANGED <<summary, missed>>
    /\ Proceed(s, "done")
    /\ UNCHANGED <<count, profile, stated, overlapped>>

\* The reply, or the last frame of the stream, is sent.
EndTurn(s) ==
    /\ turn[s].at = "done"
    /\ turn' = [turn EXCEPT ![s] = NoTurn]
    /\ UNCHANGED <<count, summary, profile, stated, overlapped, missed>>

-----------------------------------------------------------------------------
TurnStep(s) ==
    \/ LoadMemory(s) \/ Generate(s) \/ AddQuestion(s) \/ AddReply(s)
    \/ PersistProfile(s) \/ Recount(s) \/ Summarise(s) \/ EndTurn(s)

ChatNext ==
    \E s \in Slots :
       \/ \E streams \in BOOLEAN, states \in Statements : PostMessage(s, streams, states)
       \/ TurnStep(s)
       \/ Leave(s)

ChatSpec == ChatInit /\ [][ChatNext]_chatVars
-----------------------------------------------------------------------------
Remembered == Recent \cup summary

\* Once a thread has a summary, no message of it that a turn could see, in the
\* window or through the newest summary, is lost from both, as long as turns come
\* one at a time and never two summaries in a row were missed.
NothingForgotten ==
    [][summary # {} /\ ~overlapped' /\ missed' < 2 => Remembered \subseteq Remembered']_chatVars

\* A buyer's newer statement gives way to an older one only if two turns of the
\* thread overlapped: one turn after the other never forgets, whichever of them
\* fail half-way or lose their client.
ProfileMovesForward == [][profile' >= profile \/ overlapped]_chatVars

\* What a thread promises to remember, of its messages and of its buyer.
ThreadRemembers == NothingForgotten /\ ProfileMovesForward
=============================================================================
