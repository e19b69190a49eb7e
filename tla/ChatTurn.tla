------------------------------ MODULE ChatTurn ------------------------------
(***************************************************************************)
(* Chat sessions and the turns that write to them (main.py's chat routes,  *)
(* the streaming loop of ai.py): a question, edited or new, is committed   *)
(* first; its answer streams to the reader and is saved by whichever of    *)
(* the generator's exits it leaves through.  Sessions are truncated and    *)
(* deleted while answers stream.                                           *)
(***************************************************************************)
EXTENDS Naturals, Sequences

CONSTANTS
  Sessions,   \* session ids, each minted once
  Turns,      \* requests, each used once
  Nobody,     \* no session, or no turn
  ChatRounds, \* rounds of tools in one turn
  ChatBound,  \* how often each kind of event may happen
  ChatTotal   \* how many there may be

ASSUME ChatBounds == ChatRounds \in Nat /\ ChatBound \in Nat /\ ChatTotal \in Nat

ChatEvents == {"truncate", "delete", "fail", "stop", "crash"}

\* Text since the last call of a tool: blank, shorter than 160 characters and of one line,
\* or substantive.
Sizes == {"blank", "short", "long"}

VARIABLES
  sessions, \* durable: the sessions that exist
  history,  \* durable: per session, its messages in order
  turn,     \* the requests
  screen,   \* what the reader of each streamed turn has in front of them
  chatCount

chatVars == <<sessions, history, turn, screen, chatCount>>

Blank == [round |-> 0, size |-> "blank"]
NoTurn    == [at |-> "idle", session |-> Nobody, text |-> Blank, round |-> 0,
              steps |-> <<>>, notes |-> {}, saved |-> FALSE]
Unwatched == [watching |-> FALSE, text |-> Blank]
ChatStages == {"idle", "asked", "writing", "failing", "closing", "ended"}

Text == [round: 0..ChatRounds, size: Sizes]
Message == [role: {"user", "assistant"}, of: Turns, text: Text]
Turn == [at: ChatStages, session: Sessions \union {Nobody}, text: Text, round: 0..ChatRounds,
         steps: Seq(1..ChatRounds), notes: SUBSET (Nat \X (1..ChatRounds)), saved: BOOLEAN]

ChatTypeOK ==
  /\ sessions \subseteq Sessions /\ history \in [Sessions -> Seq(Message)]
  /\ turn \in [Turns -> Turn]
  /\ screen \in [Turns -> [watching: BOOLEAN, text: Text]]
  /\ chatCount \in [ChatEvents -> 0..ChatTotal]

ChatInit ==
  /\ sessions = {} /\ history = [s \in Sessions |-> <<>>]
  /\ turn = [t \in Turns |-> NoTurn]
  /\ screen = [t \in Turns |-> Unwatched]
  /\ chatCount = [k \in ChatEvents |-> 0]

ChatMore(k) ==
  /\ chatCount[k] < ChatBound
  /\ chatCount["truncate"] + chatCount["delete"] + chatCount["fail"]
     + chatCount["stop"] + chatCount["crash"] < ChatTotal
  /\ chatCount' = [chatCount EXCEPT ![k] = @ + 1]
Quietly == UNCHANGED chatCount

-----------------------------------------------------------------------------
(* The routes that ask.                                                    *)

\* A turn that has ended keeps nothing but its session.
Left(x, at) == IF at = "ended" THEN [NoTurn EXCEPT !.at = at, !.session = x.session]
               ELSE [x EXCEPT !.at = at]

Question(t) == [role |-> "user", of |-> t, text |-> Blank]
Said(t, text) == [role |-> "assistant", of |-> t, text |-> text]
Unminted == {s \in Sessions : s \notin sessions /\ history[s] = <<>> /\ \A t \in Turns : turn[t].session # s}

\* A missing session is replaced by a new one; the question is committed before anything else.
AskNew(t) == \E s \in sessions \union Unminted :
  /\ turn[t].at = "idle"
  /\ sessions' = sessions \union {s}
  /\ history' = [history EXCEPT ![s] = Append(@, Question(t))]
  /\ turn' = [turn EXCEPT ![t] = [NoTurn EXCEPT !.at = "asked", !.session = s]]
  /\ screen' = [screen EXCEPT ![t].watching = TRUE]
  /\ Quietly

\* An edited question, or one asked again: every message after it goes.
AskAgain(t) == \E s \in sessions : \E i \in DOMAIN history[s] :
  /\ turn[t].at = "idle" /\ history[s][i].role = "user"
  /\ history' = [history EXCEPT ![s] = Append(SubSeq(@, 1, i - 1), Question(t))]
  /\ turn' = [turn EXCEPT ![t] = [NoTurn EXCEPT !.at = "asked", !.session = s]]
  /\ screen' = [screen EXCEPT ![t].watching = TRUE]
  /\ UNCHANGED sessions /\ Quietly

\* The route without a stream answers in one transaction, with the error when there was one.
AnswerWhole(t) ==
  /\ turn[t].at = "asked"
  /\ \E size \in {"short", "long"} : history' =
       [history EXCEPT ![turn[t].session] = Append(@, Said(t, [round |-> 0, size |-> size]))]
  /\ turn' = [turn EXCEPT ![t] = Left(@, "ended")]
  /\ screen' = [screen EXCEPT ![t] = Unwatched]
  /\ UNCHANGED sessions /\ Quietly

-----------------------------------------------------------------------------
(* The stream.  A chunk is appended to the answer before it is handed to   *)
(* the reader; tools clear it on both sides.                               *)

Watching(t) == screen[t].watching

\* A generator whose reader is gone stops at the first thing it would hand over.
On(t) == IF Watching(t) THEN "writing" ELSE "closing"

OpenStream(t) ==
  /\ turn[t].at = "asked" /\ turn' = [turn EXCEPT ![t].at = On(t)]
  /\ UNCHANGED <<sessions, history, screen>> /\ Quietly

Token(t) == \E size \in {"short", "long"} :
  /\ turn[t].at = "writing" /\ turn[t].text.size # "long" /\ size # turn[t].text.size
  /\ turn' = [turn EXCEPT ![t].text.size = size, ![t].at = On(t)]
  /\ screen' = IF Watching(t) THEN [screen EXCEPT ![t].text = turn'[t].text] ELSE screen
  /\ UNCHANGED <<sessions, history>> /\ Quietly

\* The narration before a call is not answer: it becomes the note of the first step of the
\* round.  Then each call appends a step, the last of them perhaps one that failed.
ClearedNever(text, r) == text
Cleared(text, r) == [round |-> r, size |-> "blank"]
NoteAtLast(steps, n) == Len(steps) + n + 1
NoteAt(steps, n) == Len(steps) + 1

Tools(t) == \E n \in 1..2, fails \in BOOLEAN :
  LET r == turn[t].round + 1 IN
  /\ turn[t].at = "writing" /\ r <= ChatRounds /\ (fails => Watching(t))
  /\ IF fails THEN ChatMore("fail") ELSE Quietly
  /\ turn' = [turn EXCEPT
       ![t].text  = Cleared(@, r), ![t].round = r,
       ![t].notes = IF turn[t].text.size = "blank" THEN @
                    ELSE @ \union {<<NoteAt(turn[t].steps, n), r>>},
       ![t].steps = IF Watching(t) THEN @ \o [i \in 1..n |-> r] ELSE @,
       ![t].at    = IF fails THEN "failing" ELSE On(t)]
  /\ screen' = IF Watching(t) THEN [screen EXCEPT ![t].text = [round |-> r, size |-> "blank"]] ELSE screen
  /\ UNCHANGED <<sessions, history>>

\* persist: once, never a blank text, whatever has become of the session.
SavesAgain(t) == turn[t].text.size # "blank"
Saves(t) == ~turn[t].saved /\ turn[t].text.size # "blank"
WithSaved(t) == [turn[t] EXCEPT !.saved = @ \/ Saves(t)]
Persist(t, at) ==
  /\ history' = IF Saves(t) THEN [history EXCEPT ![turn[t].session] = Append(@, Said(t, turn[t].text))]
                ELSE history
  /\ turn' = [turn EXCEPT ![t] = Left(WithSaved(t), at)]

Finish(t) ==
  /\ turn[t].at = "writing"
  /\ Persist(t, IF Watching(t) THEN "ended" ELSE "closing")
  /\ UNCHANGED <<sessions, screen>> /\ Quietly

\* The provider fails, a tool raises, or a commit fails: the stream's or the answer's own.
Fail(t) == \E late \in BOOLEAN :
  /\ turn[t].at = "writing" /\ ChatMore("fail")
  /\ \/ ~late /\ turn' = [turn EXCEPT ![t].at = "failing"] /\ UNCHANGED history
     \/ late /\ Persist(t, "failing")   \* saved, and what comes after the commit fails
  /\ UNCHANGED <<sessions, screen>>

\* The handler keeps what was written, however short, and tells the reader of the error.
Rescue(t) ==
  /\ turn[t].at = "failing"
  /\ Persist(t, IF Watching(t) THEN "ended" ELSE "closing")
  /\ UNCHANGED <<sessions, screen>> /\ Quietly

\* Its commit fails, or that of the close: the first leaves the handler for the close, which
\* tries again, the second is swallowed.
RescueFails(t) ==
  /\ turn[t].at = "failing" \/ (turn[t].at = "closing" /\ turn[t].text.size = "long")
  /\ Saves(t) /\ ChatMore("fail")
  /\ turn' = [turn EXCEPT ![t] = Left(@, IF @.at = "failing" THEN "closing" ELSE "ended")]
  /\ UNCHANGED <<sessions, history, screen>>

\* The reader stops, or is gone.  The generator is closed where it next hands something over.
StopReading(t) ==
  /\ turn[t].at \in {"asked", "writing", "failing"} /\ Watching(t) /\ ChatMore("stop")
  /\ screen' = [screen EXCEPT ![t] = Unwatched]
  /\ UNCHANGED <<sessions, history, turn>>
\* Only a substantive fragment is worth a row then.
Close(t) ==
  /\ turn[t].at = "closing"
  /\ IF turn[t].text.size = "long" THEN Persist(t, "ended")
     ELSE turn' = [turn EXCEPT ![t] = Left(@, "ended")] /\ UNCHANGED history
  /\ UNCHANGED <<sessions, screen>> /\ Quietly

-----------------------------------------------------------------------------
(* What else happens to a session.                                         *)

TruncateSession == \E s \in sessions : \E i \in DOMAIN history[s] :
  /\ ChatMore("truncate")
  /\ history' = [history EXCEPT ![s] = SubSeq(@, 1, i - 1)]
  /\ UNCHANGED <<sessions, turn, screen>>

DeleteSession == \E s \in sessions :
  /\ ChatMore("delete")
  /\ sessions' = sessions \ {s} /\ history' = [history EXCEPT ![s] = <<>>]
  /\ UNCHANGED <<turn, screen>>

CrashChat ==
  /\ ChatMore("crash")
  /\ turn' = [t \in Turns |-> IF turn[t].at = "idle" THEN turn[t] ELSE Left(turn[t], "ended")]
  /\ screen' = [t \in Turns |-> Unwatched]
  /\ UNCHANGED <<sessions, history>>

ChatSteps(t) ==
  OpenStream(t) \/ Token(t) \/ Tools(t) \/ Finish(t) \/ Fail(t) \/ Rescue(t) \/ RescueFails(t) \/ Close(t)

ChatNext ==
  \/ \E t \in Turns : AskNew(t) \/ AskAgain(t) \/ AnswerWhole(t) \/ ChatSteps(t) \/ StopReading(t)
  \/ TruncateSession \/ DeleteSession \/ CrashChat

ChatSpec == ChatInit /\ [][ChatNext]_chatVars

-----------------------------------------------------------------------------
AnswerTo(m, t) == m.role = "assistant" /\ m.of = t

(* Whatever exits a turn takes, it leaves at most one answer, and that     *)
(* answer is the text the reader had in front of them: the text after the  *)
(* last tool returned, to the last chunk while they were reading.          *)
AnswersAreShown == \A t \in Turns, s \in Sessions : \A i \in DOMAIN history[s] :
  AnswerTo(history[s][i], t) =>
    /\ \A x \in Sessions : \A k \in DOMAIN history[x] :
         AnswerTo(history[x][k], t) => x = s /\ k = i
    /\ Watching(t) => history[s][i].text = screen[t].text

(* Narration is attached to a step of the round that it introduced.        *)
NotesFitTheirSteps == \A t \in Turns : \A n \in turn[t].notes :
  n[1] \in DOMAIN turn[t].steps => turn[t].steps[n[1]] = n[2]

(* The answer that is saved is the text that the reader was shown, and the *)
(* narration saved with it stands at the steps it introduced.              *)
SavedIsShown == AnswersAreShown /\ NotesFitTheirSteps

=============================================================================
