------------------------------- MODULE Screen -------------------------------
(***************************************************************************)
(* The conversation on the client's screen and the streams that write into *)
(* it (stores/conversation.svelte.ts, stream/sink.ts, api/sse.ts).  Opening *)
(* a conversation awaits its messages, then the stream of a turn that is   *)
(* running or ended a short while ago, which is replayed from the start.   *)
(* Nothing ties the answers of those requests to the last one asked for.   *)
(*                                                                         *)
(* A text is the number of its tokens: what is compared is whether all of  *)
(* a turn's events are on screen, once.  Each chat has one turn.           *)
(***************************************************************************)
EXTENDS Integers, Sequences, FiniteSets

CONSTANTS
  Screens,      \* the conversations
  MaxFollows,   \* bound: streams this client asks for
  MaxViews,     \* bound: conversations opened
  MaxEvents,    \* bound: events of one turn
  NoChat        \* an unsaved conversation, or none on screen

ASSUME ScreenAssumption ==
  /\ MaxFollows \in Nat /\ MaxViews \in Nat /\ MaxEvents \in Nat
  /\ NoChat \notin Screens

Follows == 1 .. MaxFollows

VARIABLES
  talk,      \* chat -> its turn on the server, and the row the turn writes
  screen,    \* what is shown, and the store's fields
  views,     \* the open() calls that wait for their messages
  follow,    \* the streams asked for, by the controller that was made for them
  watch,     \* chat -> a watcher of a turn left running
  overlapped \* whether an operation began before another had its answer

screenVars == <<talk, screen, views, follow, watch, overlapped>>

----------------------------------------------------------------------------
\* The server, as turns.py, chat.py and persistence.py present it to a client.

Kinds == {"delta", "reasoning", "tool", "retract"}
Count(log, kind) == Cardinality({i \in DOMAIN log : log[i] = kind})

Text(log) == Count(log, "delta") - Count(log, "retract")
Thought(log) == Count(log, "reasoning") + Count(log, "retract")
Tools(log) == Count(log, "tool")

Row(text, thought, tools, status) ==
  [text |-> text, thought |-> thought, tools |-> tools, status |-> status]

TalkEmits(c, kind) ==
  /\ talk[c].stage = "running" /\ Len(talk[c].log) < MaxEvents
  /\ kind = "retract" => Text(talk[c].log) > 0
  /\ talk' = [talk EXCEPT ![c].log = Append(@, kind)]
  /\ UNCHANGED <<screen, views, follow, watch, overlapped>>

\* A flush writes the text alone.
TalkFlushes(c) ==
  /\ talk[c].stage = "running"
  /\ talk' = [talk EXCEPT ![c].row = {Row(Text(talk[c].log), 0, 0, "streaming")}]
  /\ UNCHANGED <<screen, views, follow, watch, overlapped>>

TalkEnds(c) ==
  LET log == talk[c].log
  IN /\ talk[c].stage = "running"
     /\ talk' = [talk EXCEPT ![c] = [@ EXCEPT !.stage = "kept",
                  !.row = {Row(Text(log), Thought(log), Tools(log), "complete")}]]
     /\ UNCHANGED <<screen, views, follow, watch, overlapped>>

TalkIsForgotten(c) ==
  /\ talk[c].stage = "kept"
  /\ talk' = [talk EXCEPT ![c].stage = "forgotten"]
  /\ UNCHANGED <<screen, views, follow, watch, overlapped>>

Readable(c) == talk[c].stage \in {"running", "kept"}

----------------------------------------------------------------------------
\* The store.  "screen.reply" are the replies among the messages shown, by
\* conversation; "screen.version" tells one array of messages from the next.

NoFollow ==
  [stage |-> "unused", chat |-> NoChat, sending |-> FALSE, signal |-> 0, aborted |-> FALSE,
   at |-> 0, version |-> 0, text |-> 0, published |-> 0]

ScreenInit ==
  /\ talk \in [Screens -> {[stage |-> s, log |-> <<>>, row |-> {}] : s \in {"none", "running"}}]
  /\ screen = [chat |-> NoChat, version |-> 0, reply |-> [c \in Screens |-> {}],
               controller |-> 0, sink |-> 0, streaming |-> FALSE]
  /\ views = <<>>
  /\ follow = [f \in Follows |-> NoFollow]
  /\ watch = [c \in Screens |-> "none"]
  /\ overlapped = FALSE

Spent(f) == [NoFollow EXCEPT !.stage = "over", !.aborted = follow[f].aborted]

\* The next controller; one that is over keeps its abort signal, for a stream that
\* was given it by mistake.  A stream cannot be asked for past the bound.
Fresh(f) == follow[f].stage = "unused" /\ \A g \in Follows : g < f => follow[g].stage # "unused"

\* An aborted read is rejected before the page does anything else.
Settled == \A f \in Follows : follow[f].aborted => follow[f].stage \notin {"asking", "reading"}

\* #detach and the first lines of stop: give up the stream being read.
Aborts == follow' = [f \in Follows |->
  [follow[f] EXCEPT !.aborted = @ \/ (screen.controller # 0 /\ f = screen.controller)]]

Detaches(to) ==
  watch' = [c \in Screens |->
    IF c = to THEN "none"
    ELSE IF screen.streaming /\ c = screen.chat /\ watch[c] = "none" THEN "asking" ELSE watch[c]]

\* open.
OpensView(c) ==
  /\ Settled /\ Len(views) < MaxViews
  /\ Aborts /\ Detaches(c)
  /\ screen' = [screen EXCEPT !.controller = 0, !.streaming = FALSE]
  /\ views' = Append(views, [chat |-> c, stage |-> "asked", row |-> {}])
  /\ overlapped' = (overlapped \/ \E i \in DOMAIN views : views[i].stage # "over")
  /\ UNCHANGED talk

Over(v) == [v EXCEPT !.stage = "over", !.row = {}]

\* GET /api/chats/{id} reads the rows as they are then.
ViewIsRead(i) ==
  /\ views[i].stage = "asked"
  /\ views' = [views EXCEPT ![i] = [@ EXCEPT !.stage = "read", !.row = talk[views[i].chat].row]]
  /\ UNCHANGED <<talk, screen, follow, watch, overlapped>>

\* The messages replace what is shown; #attach asks for the turn at once.
ViewArrives(i, f) ==
  LET v == views[i]
  IN /\ Settled
     /\ v.stage = "read" /\ Fresh(f)
     /\ views' = [views EXCEPT ![i] = Over(@)]
     /\ screen' = [screen EXCEPT !.chat = v.chat, !.version = @ + 1, !.controller = f,
                                 !.reply = [c \in Screens |-> IF c = v.chat THEN v.row ELSE {}]]
     /\ follow' = [follow EXCEPT ![f] = [NoFollow EXCEPT !.stage = "asking", !.chat = v.chat]]
     /\ UNCHANGED <<talk, watch, overlapped>>

ViewFails(i) ==
  /\ Settled
  /\ views[i].stage # "over"
  /\ views' = [views EXCEPT ![i] = Over(@)]
  /\ UNCHANGED <<talk, screen, follow, watch, overlapped>>

\* send, in a conversation that exists.
SendsMessage(f) ==
  /\ Settled
  /\ screen.chat # NoChat /\ ~screen.streaming /\ Fresh(f)
  /\ talk[screen.chat].stage \in {"none", "running"}
  /\ screen' = [screen EXCEPT !.streaming = TRUE, !.controller = f]
  /\ follow' = [follow EXCEPT ![f] = [NoFollow EXCEPT !.stage = "asking", !.chat = screen.chat,
                                                      !.sending = TRUE]]
  /\ overlapped' = (overlapped \/ (\E i \in DOMAIN views : views[i].stage # "over")
                               \/ \E g \in Follows : follow[g].stage = "asking")
  /\ UNCHANGED <<talk, views, watch>>

\* A stream answers.  #follow is given the signal of the controller that is the
\* store's by now; with none, the call throws and "streaming" stays.
Follow(f) ==
  /\ screen' = [screen EXCEPT !.streaming = TRUE,
                              !.sink = IF screen.controller = 0 THEN @ ELSE f]
  /\ follow' = [follow EXCEPT ![f] =
       [@ EXCEPT !.stage = IF screen.controller = 0 THEN "thrown" ELSE "reading",
                 !.signal = screen.controller]]

Asking(f) == follow[f].stage = "asking" /\ ~follow[f].aborted

AttachIsAnswered(f) ==
  /\ Asking(f) /\ ~follow[f].sending
  /\ Readable(follow[f].chat)
  /\ Follow(f)
  /\ UNCHANGED <<talk, views, watch, overlapped>>

SendIsAnswered(f) ==
  /\ Asking(f) /\ follow[f].sending
  /\ talk[follow[f].chat].stage = "none"
  /\ talk' = [talk EXCEPT ![follow[f].chat].stage = "running"]
  /\ Follow(f)
  /\ UNCHANGED <<views, watch, overlapped>>

\* No turn to attach to, a turn already running, a network that fails, or an
\* abort: the catch of #attach and that of send.
AskFails(f) ==
  /\ follow[f].stage = "asking"
  /\ screen' = [screen EXCEPT !.controller = 0,
                              !.streaming = IF follow[f].sending THEN FALSE ELSE @]
  /\ follow' = [follow EXCEPT ![f] = Spent(f)]
  /\ UNCHANGED <<talk, views, watch, overlapped>>

----------------------------------------------------------------------------
\* #follow.

Cut(f) == \E g \in Follows : g = follow[f].signal /\ follow[g].aborted
Reads(f) == follow[f].stage = "reading" /\ ~Cut(f)

\* The reply this stream writes, and a change to it when its message is on screen.
Written(f) == screen.reply[follow[f].chat]
Updates(f, now) ==
  IF follow[f].version = screen.version
  THEN [screen EXCEPT !.reply[follow[f].chat] = now]
  ELSE screen

\* A stream that goes on from the text already shown instead of a fresh sink.
StartArrives_KeepsText(f) ==
  LET c == follow[f].chat
  IN /\ Settled
     /\ Reads(f) /\ follow[f].at = 0
     /\ follow' = [follow EXCEPT ![f] = [@ EXCEPT !.at = 1, !.version = screen.version,
                                 !.text = IF screen.reply[c] = {} THEN 0
                                             ELSE (CHOOSE r \in screen.reply[c] : TRUE).text]]
     /\ screen' = [screen EXCEPT !.reply[c] = IF @ = {} THEN {Row(0, 0, 0, "streaming")} ELSE @]
     /\ UNCHANGED <<talk, views, watch, overlapped>>

\* "start": the reply already on screen, or a new one after the last message.
StartArrives(f) ==
  LET c == follow[f].chat
  IN /\ Settled
     /\ Reads(f) /\ follow[f].at = 0
     /\ follow' = [follow EXCEPT ![f] = [@ EXCEPT !.at = 1, !.version = screen.version]]
     /\ screen' = [screen EXCEPT !.reply[c] = IF @ = {} THEN {Row(0, 0, 0, "streaming")} ELSE @]
     /\ UNCHANGED <<talk, views, watch, overlapped>>

\* One event.  Tokens wait in the sink; the rest is applied to the message.
EventArrives(f) ==
  LET at == follow[f].at
      kind == talk[follow[f].chat].log[at]
      text == follow[f].text
      new == IF kind = "delta" THEN text + 1 ELSE IF kind = "retract" THEN text - 1 ELSE text
  IN /\ Settled
     /\ Reads(f) /\ at \in 1 .. Len(talk[follow[f].chat].log)
     /\ follow' = [follow EXCEPT ![f] = [@ EXCEPT !.at = at + 1, !.text = new,
                                 !.published = IF kind = "retract" THEN new
                                             ELSE follow[f].published]]
     /\ screen' = Updates(f, {
          CASE kind = "delta" -> r
            [] kind = "reasoning" -> [r EXCEPT !.thought = @ + 1]
            [] kind = "tool" -> [r EXCEPT !.tools = @ + 1]
            [] kind = "retract" -> [r EXCEPT !.thought = @ + 1, !.text = new]
          : r \in Written(f)})
     /\ UNCHANGED <<talk, views, watch, overlapped>>

\* An animation frame publishes what the sink holds.
FrameFires(f) ==
  /\ Settled
  /\ Reads(f) /\ follow[f].text # follow[f].published
  /\ screen' = Updates(f, {[r EXCEPT !.text = follow[f].text] : r \in Written(f)})
  /\ follow' = [follow EXCEPT ![f].published = follow[f].text]
  /\ UNCHANGED <<talk, views, watch, overlapped>>

\* The finally block, in the state the end of the stream leaves.
Finally(f, shown) ==
  /\ screen' = IF shown.sink = f
               THEN [shown EXCEPT !.streaming = FALSE, !.controller = 0, !.sink = 0]
               ELSE shown
  /\ follow' = [follow EXCEPT ![f] = Spent(f)]

\* Mutant: the composer is not given back.
FollowEnds_KeepsStreaming(f) ==
  LET c == follow[f].chat
  IN /\ Settled
     /\ Reads(f) /\ follow[f].at = Len(talk[c].log) + 1 /\ talk[c].stage # "running"
     /\ screen' = Updates(f,
          {[r EXCEPT !.text = follow[f].text,
                     !.status = IF @ = "streaming" THEN "complete" ELSE @] : r \in Written(f)})
     /\ follow' = [follow EXCEPT ![f] = Spent(f)]
     /\ UNCHANGED <<talk, views, watch, overlapped>>

FollowEnds(f) ==
  LET c == follow[f].chat
  IN /\ Settled
     /\ Reads(f) /\ follow[f].at = Len(talk[c].log) + 1 /\ talk[c].stage # "running"
     /\ Finally(f, Updates(f,
          {[r EXCEPT !.text = follow[f].text,
                     !.status = IF @ = "streaming" THEN "complete" ELSE @] : r \in Written(f)}))
     /\ UNCHANGED <<talk, views, watch, overlapped>>

\* AbortError: "#detaching" was lowered again before the read is rejected.
FollowIsCut(f) ==
  /\ follow[f].stage = "reading" /\ Cut(f)
  /\ Finally(f, Updates(f, {[r EXCEPT !.text = follow[f].text, !.status = "stopped"] : r \in Written(f)}))
  /\ UNCHANGED <<talk, views, watch, overlapped>>

FollowBreaks(f) ==
  /\ Settled
  /\ Reads(f)
  /\ Finally(f, Updates(f, {[r EXCEPT !.status = "error"] : r \in Written(f)}))
  /\ UNCHANGED <<talk, views, watch, overlapped>>

\* stop: the server is told, which TalkEnds stands for.
Stops ==
  /\ Settled
  /\ screen.streaming
  /\ Aborts
  /\ screen' = [screen EXCEPT !.controller = 0, !.streaming = FALSE]
  /\ watch' = [c \in Screens |-> IF c = screen.chat THEN "none" ELSE watch[c]]
  /\ UNCHANGED <<talk, views, overlapped>>

\* reset: a new conversation.
Resets ==
  /\ Settled
  /\ screen.chat # NoChat
  /\ Aborts /\ Detaches(NoChat)
  /\ screen' = [screen EXCEPT !.chat = NoChat, !.version = @ + 1, !.controller = 0,
                              !.streaming = FALSE, !.reply = [c \in Screens |-> {}]]
  /\ overlapped' = (overlapped \/ \E i \in DOMAIN views : views[i].stage # "over")
  /\ UNCHANGED <<talk, views>>

\* #watch: "from=now", so a turn that ended already is read to its end at once.
WatchIsAnswered(c) ==
  /\ watch[c] = "asking"
  /\ watch' = [watch EXCEPT ![c] = IF Readable(c) THEN "reading" ELSE "none"]
  /\ UNCHANGED <<talk, screen, views, follow, overlapped>>

WatchAnnounces(c) ==
  /\ watch[c] = "reading" /\ talk[c].stage # "running"
  /\ watch' = [watch EXCEPT ![c] = "none"]
  /\ UNCHANGED <<talk, screen, views, follow, overlapped>>

----------------------------------------------------------------------------

TalkSteps ==
  \E c \in Screens :
    \/ \E kind \in Kinds : TalkEmits(c, kind)
    \/ TalkFlushes(c) \/ TalkEnds(c) \/ TalkIsForgotten(c)

Arrives(f) ==
  \/ AttachIsAnswered(f) \/ SendIsAnswered(f) \/ AskFails(f)
  \/ StartArrives(f) \/ EventArrives(f) \/ FollowEnds(f) \/ FollowIsCut(f)

ScreenSteps ==
  \/ \E c \in Screens : OpensView(c) \/ WatchIsAnswered(c) \/ WatchAnnounces(c)
  \/ \E i \in DOMAIN views : ViewIsRead(i) \/ ViewFails(i) \/ \E f \in Follows : ViewArrives(i, f)
  \/ \E f \in Follows : SendsMessage(f) \/ Arrives(f) \/ FrameFires(f) \/ FollowBreaks(f)
  \/ Stops \/ Resets

ScreenSpec == ScreenInit /\ [][TalkSteps \/ ScreenSteps]_screenVars

\* The network answers, a stream is read to its end, and a turn ends: its
\* backend is under a timeout.
ScreenFairness ==
  /\ \A f \in Follows : WF_screenVars(Arrives(f))
  /\ \A c \in Screens : WF_screenVars(TalkEnds(c))

----------------------------------------------------------------------------
\* Properties.

\* Types, and what the two counters of a stream mean: it has read no further
\* than the turn's frames and holds exactly the text of what it read.
ScreenTypeOK ==
  /\ screen.chat \in Screens \cup {NoChat}
  /\ screen.controller \in {0} \cup Follows /\ screen.sink \in {0} \cup Follows
  /\ \A f \in Follows :
       LET log == talk[follow[f].chat].log IN
       follow[f].at > 0 =>
         /\ follow[f].at - 1 <= Len(log)
         /\ follow[f].text = Text(SubSeq(log, 1, follow[f].at - 1))

\* Where each open(), send and reset waits for the one before, only the
\* conversation on screen has messages there, one stream at most is read, and it
\* is the one the stop button and the next open() will abort.
CalmScreenShowsOneConversation ==
  ~overlapped /\ Settled =>
    /\ \A c \in Screens : screen.reply[c] # {} => c = screen.chat
    /\ \A f \in Follows : follow[f].stage \in {"asking", "reading"} =>
         follow[f].chat = screen.chat /\ screen.controller = f

Unread(c) == \A f \in Follows : follow[f].chat = c => follow[f].stage # "reading"

\* A reply shown as complete has the whole text of a turn that ended, however
\* often its stream was given up and replayed from the start.
CompleteRepliesAreWhole ==
  \A c \in Screens : \A r \in screen.reply[c] :
    r.status = "complete" /\ Unread(c)
      => talk[c].stage \in {"kept", "forgotten"} /\ r.text = Text(talk[c].log)

\* What the screen may show (conversation.svelte.ts): all of the above.
ScreenInv == ScreenTypeOK /\ CalmScreenShowsOneConversation /\ CompleteRepliesAreWhole

\* The composer is given back: a turn that is being streamed stops being so.
StreamingEnds == (screen.streaming /\ ~overlapped) ~> (~screen.streaming \/ overlapped)

\* "a replay rebuilds the turn exactly as the original arrival would have"
\* (#follow, conversation.svelte.ts): a reply read to its end shows the turn's
\* reasoning and its tool calls, once.
ReplaysRebuildTheTurn ==
  \A c \in Screens : \A r \in screen.reply[c] :
    ~overlapped /\ r.status = "complete" /\ Unread(c)
      => r.thought = Thought(talk[c].log) /\ r.tools = Tools(talk[c].log)

\* "Load a stored conversation, replacing whatever is on screen" (open): what is
\* on screen belongs to the conversation that is.
ScreenShowsOneConversation ==
  \A c \in Screens : screen.reply[c] # {} => c = screen.chat
=============================================================================
