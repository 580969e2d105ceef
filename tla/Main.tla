-------------------------------- MODULE Main --------------------------------
(***************************************************************************)
(* main.cpp: connect, Loads single injects of one payload, one bulk of     *)
(* Loads payloads, and the end of the scope.  No result is looked at, so   *)
(* every call is made whatever became of the ones before.                  *)
(*                                                                         *)
(* connect asks for the password with a CharBuffer that lives until the    *)
(* connection has been tried; connect is noexcept, so that memory that     *)
(* the prompt does not get ends the program.                               *)
(***************************************************************************)
EXTENDS SQLInserter

CONSTANTS Loads,             \* how many payloads (500 in the code)
          MaxBufferSize,     \* of CharBuffer (256 in the code)
          Printable          \* characters of a password

ASSUME LoadsAssumption == Loads + 1 = MaxCalls /\ Loads = MaxBulk
ASSUME TableAssumption == 3 \in FieldCounts       \* the columns main names
ASSUME ConnectionAssumption == 1 \in Connection   \* main connects once

VARIABLES line,              \* where main is
          i                  \* its loop counter

mainVars == <<line, i>>

VARIABLES pc, buffer, capacity, stars        \* of the CharBuffer in connect

promptVars == <<pc, buffer, capacity, stars>>
allVars == <<vars, mainVars, promptVars>>

Prompt == INSTANCE CharBuffer

\* The characters 32 to 126 are not the terminator.
ASSUME PromptAssumption == MaxBufferSize \in Nat /\ Prompt!Zero \notin Printable

MainInit == Init /\ Prompt!Init /\ line = "init" /\ i = 0

\* curl_global_init; a failure ends main before there is an SQLInserter.
GlobalInit ==
  /\ line = "init"
  /\ line' \in {"connect", "exited"}
  /\ UNCHANGED <<i, vars, promptVars>>

\* The user at the prompt: any keys, and in the end Enter.
Typing ==
  /\ line = "connect"
  /\ Prompt!Backspace \/ \E c \in Printable : Prompt!TypeCharacter(c)
  /\ UNCHANGED <<mainVars, vars>>

PressEnter == line = "connect" /\ Prompt!Enter /\ UNCHANGED <<mainVars, vars>>

StartPrompt == line = "connect" /\ Prompt!Reserve /\ UNCHANGED <<mainVars, vars>>

\* The password is used, and destroyed when the try block is left.
ConnectFirst ==
  /\ line = "connect" /\ line' = "single"
  /\ Prompt!Destroy
  /\ Connect \/ ConnectFails
  /\ UNCHANGED i

\* An exception left one of the calls.
Threw == at = "idle" /\ \E n \in CallId : result[n] = "threw"

\* bad_alloc meets the noexcept of connect, or main, which has no handler.
Terminate ==
  /\ \/ line = "connect" /\ pc = "threw"
     \/ line \in {"single", "end"} /\ Threw
  /\ line' = "terminated"
  /\ UNCHANGED <<i, vars, promptVars>>

\* Memory is too short for what main itself makes: the names of the statement,
\* the payloads, the Sequence of them.
ShortOfMemory ==
  /\ line = "single" /\ at = "idle" /\ line' = "terminated"
  /\ UNCHANGED <<i, vars, promptVars>>

\* (mutant) the result of each inject is looked at, and a failure ends the loop
\* for good.
SingleGivingUp ==
  /\ line = "single" /\ i < Loads
  /\ i > 0 => result[i] = "Success"
  /\ Start(<< "sound" >>, 3)
  /\ i' = i + 1
  /\ UNCHANGED <<line, promptVars>>

Single ==
  /\ line = "single" /\ i < Loads /\ ~Threw
  /\ Start(<< "sound" >>, 3)
  /\ i' = i + 1
  /\ UNCHANGED <<line, promptVars>>

\* The bulk waits for the last inject to return.
Bulk ==
  /\ line = "single" /\ i = Loads /\ ~Threw /\ line' = "end"
  /\ Start([k \in 1 .. Loads |-> "sound"], 3)
  /\ UNCHANGED <<i, promptVars>>

Leave ==
  /\ line = "end" /\ ~Threw /\ line' = "exited"
  /\ Destroy
  /\ UNCHANGED <<i, promptVars>>

\* The steps of the inserter's own functions.
Within ==
  /\ Prepare \/ Bind \/ Execute \/ ExecuteUnanswered \/ ExecuteFails
  /\ UNCHANGED <<mainVars, promptVars>>

MainStep ==
  \/ GlobalInit \/ StartPrompt \/ ConnectFirst \/ Terminate
  \/ Single \/ Bulk \/ Leave \/ Within

Sessions == (\E c \in Connection : SessionDies(c)) /\ UNCHANGED <<mainVars, promptVars>>

MainNext == MainStep \/ Typing \/ PressEnter \/ Sessions \/ ShortOfMemory

MainSpec ==
  MainInit /\ [][MainNext]_allVars /\ WF_allVars(MainStep) /\ WF_allVars(PressEnter)

-----------------------------------------------------------------------------
\* main ends whatever the server does and whatever is typed, as no result of a
\* call holds it up.
MainEnds == <>(line \in {"exited", "terminated"})

\* What _CrtDumpMemoryLeaks would report at the end of main: a connection or a
\* statement that nobody deleted.  main connects once, so there is none.
NothingLeftBehind ==
  line = "exited" =>
    /\ pstmt = NoStatement
    /\ \A c \in Connection : connection[c] \in {"unused", "deleted"}

\* Ignoring the answers, main still makes every call, and each has an answer of
\* its own: without a connection nothing is stored and every answer says so,
\* and at most one call - the one during which the session died - was stored
\* without its answer saying so.
EveryPayloadAnswered ==
  line = "exited" /\ ~alive =>
    /\ calls = Loads + 1
    /\ \A n \in CallId : result[n] # "pending"
    /\ connection[1] = "unused" =>
         table = {} /\ \A n \in CallId : result[n] = "No connection"
    /\ Cardinality({n \in CallId : result[n] # "Success" /\ Rows(n) \subseteq table})
         <= 1

\* The user sees one asterisk for each character of the password that is kept, and
\* what the connector gets is a C string, also of a password at the limit.
PromptIsFaithful == Prompt!ScreenShowsBuffer /\ Prompt!IsCString

=============================================================================
