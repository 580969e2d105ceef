# Verification of steam_sql_proj

The program under `src/steam_sql_proj` fetches JSON from the Steam web API with libcurl and inserts it
into a MySQL database through Connector/C++. It is a small C++20 code base with its own dynamic array
(`Sequence`) under everything. This directory holds TLA+ modules of its parts, the TLC configurations that
check them, and proofs checked by TLAPS.

The repository has no README, tests or design documents: what the code promises is taken from its comments,
its assertions and its own use of its functions. All paths below are relative to `src/steam_sql_proj`.

Contents: [system](#the-system) - [modules](#modules-and-the-code) - [runs](#runs) -
[fairness](#fairness) - [proofs](#proofs) - [findings](#what-was-found) -
[not modelled](#what-is-not-modelled) - [plan](#plan)

## The system

| Part | State | Operations | Uses |
| --- | --- | --- | --- |
| `multi_request_data` (libcurl_request.h) | a multi handle, a `Sequence<CurlRequest>`, the results | set up, perform/poll, collect, clean up | libcurl, `Sequence`, `Logger` |
| `request_data`, `validate_certificate` | one easy handle | one blocking transfer | libcurl, `Logger` |
| `Sequence<T>` (Sequence.h) | `mArray`, `mSize`, `mCapacity`, `mAdditive`, the heap | push, erase, reserve, copy, move, swap, ... | `bad_utility.h` |
| `Logger` (Logger.h) | two `Sequence<std::string>`, a mutex | append (locked), read last (not locked) | `Sequence` |
| `build_sql_insert_query` | none | text of an INSERT for n rows | |
| `SQLInserter` (SQL_inserter.h) | driver, connection | connect, close, inject, inject_bulk | the query builder, `Payload` binding, Connector/C++ |
| `PayloadArray` | a `Sequence<Payload>` | three ways to make a payload | `Sequence`, `json.hpp` |
| `CharBuffer` | a `Sequence<char>` | the password prompt | `Sequence` |
| `main` | | connect, 500 single injects, one bulk | `SQLInserter`, `Sequence` |
| `steam_urls` | none | six URLs of the Steam API | |
| `extract_and_bind.h`, `custom_sql_command.h`, `steam_sql_commands.h` | none | marked deprecated in the source | `json.hpp`, `Sequence` |
| `Stopwatch`, `RandomNum`, `Stuff.h` | none worth a property | clock, random numbers, console | |

How they interact. `multi_request_data` and `SQLInserter` are the two ends of the program; each drives an
external library by calls. libcurl calls back: inside `curl_multi_perform` it calls `call_back`, which appends
to the `WebRequestHandle` whose address it was given, and at the end it hands back the address of the
`CurlRequest`. Both objects live in a `Sequence`, which moves its elements when it grows, so the correctness
of the transfer loop depends on the capacity arithmetic of the container. The `Logger` is a singleton that any
thread may reach. `main` composes the database half and looks at none of its answers.

What is hard here:

* *Addresses kept by a library* across calls that may move the object (libcurl_request.h:155).
* *Failure in the middle*: setup of one URL of many, `curl_multi_perform` breaking, a `bad_alloc` in any of
  several allocations of one operation, a bulk insert, a bind that throws.
* *Order*: transfers complete in any order; handles must be cleaned up before the multi handle.
* *Time*: only a timeout set on each handle bounds the polling loop.
* *Interleaving*: writers of the logger against each other, and against readers that take no lock.
* *Lost answers*: the server may commit and the session die before the client hears of it.
* *Text put together from parts*: commas that are one too many or too few.
* *Boundaries*: empty ranges and the last element in `erase` and `swap_with_last_erase`, growth from a capacity
  of 0 or 1, zero fields or rows in the query.

What makes each part correct:

* the transfer loop: every address libcurl follows is that of the right live request; bodies and results belong
  to their URL; every URL is answered at most once and, if not at all, for a known reason; everything is
  released in the right order; the call returns;
* `Sequence`: every block has one owner, the objects in it are exactly the first `mSize` cells, each member
  does to a list what its name says and a failed one leaves the list alone, and every loop ends;
* `Logger`: appends are atomic and none is lost; reads return what the comments say;
* `request_data`, `PayloadArray`, the extraction functions: what is returned tells the caller exactly what was
  done, and a refused call leaves the caller's data as it was;
* `CharBuffer`: the screen and the buffer agree, and the result is a C string;
* the inserter: a bulk is stored whole or not at all, an answer never claims more than is true, no statement
  or connection is left over except where the code gives it up;
* `main`: it ends, with nothing left behind.

## Modules and the code

| Module | Models | Extends / instantiates |
| --- | --- | --- |
| `SequenceMath` | `growthFactor`, `core_min` | |
| `MultiRequest` | `multi_request_data`, `CurlRequest`, `call_back`, the RAII wrappers | `SequenceMath`; refines `BatchFetch` |
| `BatchFetch` | what a caller of a batch may rely on (abstract) | |
| `MultiRequest_proofs` | theorems about `MultiRequest` | `MultiRequest`, `TLAPS` |
| `SequenceStore` | every mutating member of `Sequence<T>` on an explicit heap | `SequenceMath`; refines `SequenceList` |
| `SequenceStore_proofs` | theorems about `SequenceStore`: who owns the blocks | `SequenceStore`, `SequenceTheorems`, `TLAPS` |
| `SequenceLifetimes_proofs` | theorems about `SequenceStore`: what is in them | `SequenceStore_proofs` |
| `MCSequence` | `SequenceStore` for TLC: symmetry, and how many steps a member function has left | `SequenceStore` |
| `SequenceList` | each object is a list; members act on it at once (abstract) | |
| `Logger` | `add_log`, `add_error`, `last_log`, `last_error`, down to member accesses | `SequenceMath` |
| `Logger_proofs` | theorems about `Logger` | `Logger`, `SequenceTheorems`, `TLAPS` |
| `InsertStatement` | `build_sql_insert_query` | |
| `SQLInserter` | `SQLInserter`, `Payload` binding, sessions and the table of the server | `InsertStatement`; refines `BulkTable` |
| `BulkTable` | what a caller of an `SQLInserter` may rely on (abstract) | |
| `SQLInserter_proofs` | theorems about `InsertStatement` and `SQLInserter` | `SQLInserter`, `FiniteSetTheorems`, `TLAPS` |
| `Main` | `main`, with the password prompt of `connect` | `SQLInserter`; instantiates `CharBuffer` |
| `Main_proofs` | theorems about `Main` | `Main`, `SQLInserter_proofs`, `FiniteSetTheorems` |
| `WebFetch` | `request_data`, `validate_certificate`, a caller's view of `multi_request_data`, and the error log they share | |
| `PayloadArray` | the three `try_make_payload` | |
| `WebPayloads` | a caller that makes payloads from what it fetched | instantiates `WebFetch`, `PayloadArray` |
| `WebPayloads_proofs` | theorems about `WebPayloads` | `WebPayloads`, `SequenceTheorems`, `TLAPS` |
| `CharBuffer` | the password prompt | `SequenceMath` |
| `Extract` | the four `extractjson` functions | |
| `Extract_proofs` | theorems about `Extract` | `Extract`, `SequenceTheorems`, `FiniteSetTheorems`, `TLAPS` |

**MultiRequest.** `pc` is the phase of the function (`setup`/`setopt` alternate in the range-for, then
`performing`/`poll`, `collect`, `destroy`). `requests` holds, per slot of the real `Sequence<CurlRequest>`, the
URL whose request is there; an address is the pair `<<block, slot>>`, and a reallocation takes a new block, so
that every address of the old one stops being `Valid`. `ptr` is what `CURLOPT_WRITEDATA` and
`CURLOPT_PRIVATE` were given (the two point into the same object). `EmplaceRequest` really asks whether the
`Sequence` is full and grows with `growthFactor`: it is the `set_capacity` in `InitMulti` that makes the growth
never happen, not the model. `Transfer(u)` is what libcurl does inside `curl_multi_perform`; every failure
that the code tests is an action or a disjunct, and so is the one that it does not (the refused
`curl_multi_add_handle`, recorded in `refused`). `DestroyRequests` before `DestroyMulti` is the order of
destruction of the two locals; it is the same when a `bad_alloc` leaves the function (`InitThrows`, `Throws`, then
"unwinding" to "thrown"), which nothing in it catches. `rc` and `http` are what libcurl reports; `is_good` is computed as in the code.
The variables `refused` and `wild` are history. A null handle makes `setup` fail: that is how libcurl answers
`curl_easy_setopt(NULL, ...)`.

**SequenceStore.** A member function is a program of the private steps it calls, kept in `todo` as
records `[do |-> ...]`; `allocate` may always throw, which empties `todo`. `reConstructAllocate` is
allocate/construct.../adopt; construction and the loops of `erase` and `swap_with_last_erase` run one element
at a time. A cell of a block is `Raw`, `Moved` or a value; anything C++ leaves undefined raises `wild`. The
by-value parameter of `operator=` and the `temp` of the list assignment are the object `"t"`. `shown` is the
list that each object held when the last call returned, which is what `SequenceList` sees.
`resize(count)` is `resize(count, value)` with a value of the caller's; the counting constructors are
covered by `assign_list`. `MCSequence` counts the steps that the program in `todo` can still take (`Work`), so that "every
loop ends" is an action property, which TLC may check under symmetry as it may not a liveness property.

**Logger.** An append is `Lock`, the emplace_back in the order in which it writes the members, and `Unlock`;
a read is `isEmpty`, the index, the array and the copy of the element. Interleavings of these accesses stand
for the data race; a real race may do worse. Both the reallocation and the construction of the string may throw
(`AllocateFails`, `ConstructFails`). The readers are `noexcept`: one whose copy has no memory ends the program, which is left out. `accepted`, `dropped` and `quiet` are history.

**InsertStatement, SQLInserter.** The query is a sequence of tokens, so that `back() = c` replaces whatever is
there; `IsInsert` is a grammar of one INSERT, written independently. `Start` is the common prefix of `inject`
(one item) and `inject_bulk`, which only differ in that `inject` cannot be given an empty list. Then
`Prepare`, one `Bind` per payload, and one of three ends: executed and answered, executed but the session
died, refused. A `bad_alloc` in the building of the query, or a json exception in `dump()`, is an `SQLException` to none of
the handlers and leaves the call: the result is "threw". `SessionDies` may happen between any two steps. The server takes a multi-row INSERT as one
statement: it is committed whole or not at all (`Sent`); that is an assumption about an InnoDB table, and the
code relies on it by sending one statement per call (`Statements`). `abandoned` is the set of connection objects that `release()` gave up.
`BulkTable` has no connection, session or statement: a call is made, and the step that answers it adds all of its
payloads or none. `calls`, `items`, `result` and `table` are the same in both, so no refinement mapping is written.

**Main.** Composes `SQLInserter` with the program of `main`: each action of `Main` takes the inserter's action
with it. `connect` is preceded by the prompt of `CharBuffer`, and ends the program if the prompt throws, as it is
`noexcept`. `main` has no handler either: an exception out of `inject` or `inject_bulk` ends the program (`Terminate`), and
so does memory that is too short for what `main` builds itself (`ShortOfMemory`).

**WebFetch.** Each function is one action, as nothing else runs meanwhile; what needs a state machine is the error
list of the `Logger`, which outlives the calls: an entry remembers the call that wrote it. `multi_request_data` is given one
URL and is what its caller sees (how it gets there is in `MultiRequest`): a handle or none, an entry or none. It sets
`contentType` from what libcurl reports. `request_data` has libcurl write a pointer over the `std::string`: the type is then
"undefined", and the comparison in `PayloadArray` may go either way.

**PayloadArray.** `mine` is a json variable that the caller passes by copy or by move as often as it likes. Which
text parses is up to `nlohmann::json`; the code passes the body without its length, so the model lets any body fail
to parse. The functions are `noexcept`: a failed allocation is the answer "terminate". `accepted` is what the answers tell a
caller that it has stored. `WebPayloads` passes the third overload the handle of the last request, for any recipient;
`served` is what the server had, so that a body cut short can be told.

**CharBuffer.** One action per code that `_getch` returns. `stars` is what the screen shows behind the prompt.

**Extract.** The header is marked as deprecated and nothing includes it. A document is what the code asks of it: is a key there with the right type. Values are told apart by the call
they came from, which is what the properties about reused sheets need. The writes of a call come in order: an exception
leaves a prefix of the fields of a sheet, or all of them and a prefix of the entries of its list (`Fill`). The text of a steamid is one of six forms, told apart by what `std::from_chars` makes of
them: whether it reads a number, whether it stops at the end, and whether it writes its result (it does not when the
number is too large).

Mutants: definitions commented `(mutant)` are wrong versions of the definition that follows them, the way the
code could plausibly be wrong. Each property of each passing run is violated when one of them takes the place
of the original (`PROJECT.json`, "mutants"), which shows that the property can fail.

## Runs

| Run | Configuration | Checks | Bounds and why they are enough |
| --- | --- | --- | --- |
| `multi` | `MCMultiRequest.cfg` | `TypeOK`, `PointersResolve`, `BodiesBelong`, `LossesAccounted`, `FinishedAreAnswered`, `CleanShutdown`, `Termination`, `ImplementsBatchFetch` | 3 URLs: a failed first or second setup shifts the slots of two others; 1 chunk tells a body from none; a good and a bad status; a deadline 1 tick away: transfers may end before, at and after it |
| `sequence` | `MCSequence.cfg` | `TypeOK`, `OneOwnerEach`, `FitsInBlock`, `LifetimesMatchSize`, `NoUndefinedBehaviour`, `ImplementsList`, `EveryStepGetsCloser` | 2 objects and the temporary: all ways for two owners to meet; 3 blocks: both objects and one being filled, so allocation also fails by exhaustion; sizes to 3, capacities beyond: `erase` and `swap_with_last_erase` over every range, crossing or not; 2 values, as order needs two; an additive of 2 as long as each has one element at most (the constraint `ShortIfMoreAdditive`; the theorems are about any); objects and values are symmetric, and no property is a liveness property |
| `sequence_alias` | `MCSequenceAlias.cfg` | `CopiesElements` (violated) | 1 object of up to 2 elements, with `push_back` of an own element also when full |
| `logger_safety` | `MCLogger.cfg` | `TypeOK`, `MutualExclusion`, `NothingLost`, `WriterOrder`, `QuietReadIsLast`, `EveryWriteReturns` | 2 writers x 2 messages: a list grows 0, 1, 2, 4, so two relocations move elements, and the writers contend; 1 reader, as readers do not disturb each other |
| `logger_race` | `MCLoggerRace.cfg` | `EveryReadIsALog` (violated) | 1 writer, 1 reader |
| `inserter` | `MCSQLInserter.cfg` | `TypeOK`, `AnswerTells`, `StatementsFreed`, `QueryIsInsert`, `ConnectionsAccounted`, `ImplementsBulkTable`, `StatementComplete` | 2 connections: one is replaced by the other; 2 calls of up to 3 payloads; 0, 2, 3, 4 fields; a placeholder limit between two rows and three |
| `main` | `MCMain.cfg` | `NothingLeftBehind`, `EveryPayloadAnswered`, `PromptIsFaithful`, `MainEnds` | 3 payloads stand for 500, each treated alike; a buffer of 4 instead of 256 characters; the number of keys is not bounded |
| `web_payloads` | `MCWebPayloads.cfg` | `HandleTells`, `HoldsWhatSucceeded`, `StoredIsGoodAnswer` | 2 calls: an error of one can be taken for that of the other; 2 chunks, so that a body can be cut short; a status on each side of success; labels on both sides of both limits; 2 recipients and 2 payloads, one behind the other |
| `payload_type` | `MCWebPayloadsType.cfg` | `RefusedAsNotJson` (violated) | 1 request, 1 payload; the refused handle is one of `multi_request_data` |
| `certificate` | `MCCertificate.cfg` | `CertificateFailureLogged` (violated) | 2 calls: the log is empty, or about the call before |
| `extract` | `MCExtract.cfg` | `EntriesDoNotMix`, `RefusedLeavesSheets` | 2 calls, the second into sheets that the first has filled or half filled; lists of 1 and 2 entries; the six forms of a steamid |
| `steamid` | `MCExtractSteamid.cfg` | `SteamidIsChecked` (violated) | 1 document; the six forms of a steamid |

`CHECK_DEADLOCK FALSE` is set where the program really ends (`MultiRequest`, `Main`) or runs out of the bounded
number of messages, calls or payloads (`Logger`, `SQLInserter`, `WebFetch`, `WebPayloads`, `Extract`). `SequenceStore` is
checked for deadlock.

What the properties say beyond a test:

* `PointersResolve` relates the container's history to pointers held by the library: for every pattern of failed
  setups no later `emplace_back` moves a request that libcurl may follow.
* `LossesAccounted` is as strong as the code allows: its only silent loss is a refused `curl_multi_add_handle`.
* `FinishedAreAnswered` says that breaking out of the loop does not throw away what had finished.
* `ImplementsList`, with an allocation failing anywhere, is the strong exception guarantee of every member but
  `insert_back`, which keeps what it had appended.
* `QuietReadIsLast` is what remains true of the unlocked readers; `EveryReadIsALog` is what the comment says.
* `AnswerTells` states exactly how far an answer can be trusted: `Success` is certain, `SQLException` leaves it
  open, everything else means that nothing was stored.
* `ImplementsBulkTable` is atomicity over the steps of a call: preparing, binding and executing, the end of the session
  between any two of them, and the answer that is lost, are one step of the table or none.
* `EveryStepGetsCloser`: wherever a member function is, and whichever allocation fails, there is a bound on what it has
  left to do, and each step lowers it; with the absence of deadlock, every call returns.
* `PromptIsFaithful` relates the screen, the `Sequence` and the terminator, also when the password has reached the limit.
* `ConnectionsAccounted` names the only way to leak a connection: `close()` and a second `connect()`.
* `StoredIsGoodAnswer` relates three parts: what the server had, what the log and the status say of the transfer, and what is
  in the array. It tells the two meanings of `is_good` apart: that of `request_data` says nothing of the status.
* `QueryIsInsert` says exactly when the builder's replacements of the last comma are right.
* `HandleTells` ties `is_good` to the error log over a sequence of calls: neither can be read without the other,
  because the log is never cleared.
* `HoldsWhatSucceeded` compares the array with the answers: what answered "Success" is in it, in order, and nothing else. Like
  `RefusedLeavesSheets` it is the strong guarantee of functions that answer with a message instead of an exception.
* `EntriesDoNotMix` holds also after an exception and a retry into the same sheet; the retry then stores entries twice,
  which the code does nothing to prevent.
* `EveryPayloadAnswered`: though `main` ignores its answers, at most one call is stored without saying so.

## Fairness

* `MultiRequest!FairSpec`: weak fairness of `Program` (the thread is scheduled and libcurl's calls return),
  of `Tick` (time passes), and of some transfer ending. The last is justified by libcurl alone: during a perform
  call that outlives the deadline every transfer is ended by `CURLOPT_TIMEOUT` (line 161), and `PerformReturns` is
  guarded accordingly. Without a timeout (or with its `setopt` failing, which line 161 does not check) there
  would be no such justification.
* `SequenceStore!Spec` has none: that its calls return is checked by a variant (`EveryStepGetsCloser`).
* `Logger!Fairness`: weak fairness of each writer's next step. A writer waiting for the mutex competes with
  finitely many appends (`NumWrites`), so weak fairness is enough; with unbounded appends a `std::mutex`
  promises nothing.
* `MainSpec`: weak fairness of the main thread, and of the user pressing Enter: the prompt waits for nothing else and
  no timeout ends it. Sessions may die or not, and memory may be too short or not (`ShortOfMemory` is not among the fair steps).

## Proofs

`MultiRequest_proofs` proves, for every number of URLs, chunk bound, set of status codes and timeout
(assumptions `NumUrlsAssumption`, `ServerAssumption`, `TimeoutAssumption` of `MultiRequest`, which say that
they are natural numbers):

* `TypeCorrect`: `Spec => []TypeOK`. `TypeOK` is inductive with one fact added (`Typed`: a URL being set up
  is one of the batch); one step per action, with the facts about sequences
  that each needs in lemmas of their own (`PushBackType`, `PopBackType`, `DerefType`).
* `PointersAlwaysResolve`: `Spec => []PointersResolve`. `PointersResolve` is not inductive: nothing in it says
  why `emplace_back` does not reallocate. It is strengthened by three facts:
  during the setup phase the number of requests is smaller than the index of the next URL and the
  capacity is still `NumUrls`, hence the `Sequence` is never full when it is appended to; a
  request being set up is the last one and not yet attached, so that `pop_back` frees no slot
  libcurl knows; and every pending DONE message, and every running transfer, is that of an attached handle, so that
  the addresses followed later are among those the invariant speaks of.

* `ShutdownIsClean`: `Spec => []CleanShutdown`, from `OwnerInv`: a live easy handle belongs to a request that
  `requests` still holds (so `pop_back` and the destructor between them clean all of them up), and the multi handle
  is freed only on the way to the last state. That nothing is attached then is `PointersResolve`: an attached handle
  would lead into a `Sequence` that is empty.
* `BodiesNeverMix`: `Spec => []BodiesBelong`, from `BodyInv`: nothing is sent during phase 1, and an answered URL
  is no longer attached, so that no chunk is sent for a body that has been moved out.
* `FinishedTransfersAnswered`: `Spec => []FinishedAreAnswered`, from `FinishInv`: a transfer that ended is answered
  or has a DONE message waiting, and `MessageInv` says that none waits when the collect phase is over.
* `LossesAreAccounted`: `Spec => []LossesAccounted`, from `LossInv`: every URL that phase 1 has passed is attached,
  answered or lost for a logged (or refused) reason of its own, never two of these; an attached handle runs or has a
  message; and the collect phase starts with no transfer running unless a failure of the multi handle was logged.
* `BatchFetchSafety`: `Spec => Abstract!Init /\ [][Abstract!Next]_(Abstract!abstractVars)`, by cases over the
  actions: `SetupFails` is `Reject`, `CollectMessage` is `Answer`, `InitMultiFails` and the end of `DestroyMulti` are
  `Return`, the two throwing steps are `Throw`, everything else leaves the caller's view alone.

These are all the safety invariants of `multi` and the safety half of its refinement, for any number of URLs, chunks and
status codes and any timeout. They rest on `NumUrlsAssumption`, `ServerAssumption` and `TimeoutAssumption` (sizes are
naturals) and on the model of libcurl's calls.

`SQLInserter_proofs` proves, for every bound on connections, calls, payloads and placeholders and every set of column
counts (`BoundsAssumption`, `FieldsAssumption`: they are naturals, and a bulk may hold at least one payload):

* `StepKinds` reduces the twelve disjuncts of `Next` to four kinds of step for the call under way: nothing happens to
  it (`Quiet`), it begins, it goes on, it ends with an answer. The invariants and the refinement are proved over these
  four.
* `CallInv`: a call under way holds a connection, is the last one, and is the only one without an answer. The types
  (`Typed`) alone are not inductive, because `Bind` and `Execute` use `mConnect` and `calls` as indices.
* `TypeCorrect` (`TypeOK`) from `CallInv` and `BulkInv` (below): the types, and a call under way holds a connection and has
  payloads, which the early returns of `Start` see to.
* `NoStatementLeft` (`StatementsFreed`) is a conjunct of `CallInv`.
* `AnswersTell` (`AnswerTells`), from `RowInv`: a row in the table is of a call answered `Success` or `SQLException`;
  this needs `CallInv`, so that a row is never of a call that is yet to be answered.
* `ConnectionsAreAccounted` (`ConnectionsAccounted`), from `ConnInv`, which adds what makes it inductive: a connection
  that is held or was let go is open or dead, so that a new one is neither.
* `ImplementsTable`: `Spec => ImplementsBulkTable`. `Begins` is `Call`, an end is `Stored`, `Threw` or `InDoubt`,
  everything else leaves the caller's view alone. `SentIsRows` is where it matters that a call sends one statement.
* `QueriesAreInserts` (`QueryIsInsert`), for any numbers of columns and rows: the builder writes an INSERT, but for no
  column. Lemmas about `operator+=`, `back() = c` and `Repeat` lead to `QueryText`, which says what token is at each
  place of the text: row t begins at `RowAt(f, t)`, and its last token is a comma or, in the last row, the semicolon.
  From there `IsInsert` has two halves. Neighbours: each place is classified by the part of the text it is in. Counts: the
  places of a token are the image of an interval, or of rows times columns, under an injection.
* `StatementsComplete` (`StatementComplete`) from `BulkInv`: the statement held has as many places as columns times
  payloads, and three values are bound for each of the payloads so far, in the end for all of them. A statement is only
  executed when what is bound fills its places, hence with three columns.

`Logger_proofs` proves, for any sets of writers and readers, any number of messages and any set of addresses
(`ThreadAssumption`: writers are not readers; `WritesAssumption`: the bound is a natural; `CellAssumption`: the marks of
raw and moved-from cells are no messages; `BlockAssumption`: addresses are positive):

* `OneWriterAtATime` (`MutualExclusion`) is inductive with the types, because `Unlock` is also the exit of a failed
  allocation. `Typed` needs `WriterInv` besides: the message under construction has a number. `TypeCorrect` (`TypeOK`) adds
  that a list fits in its capacity, which follows from `SizeInv`.
* `NoMessageLost` (`NothingLost`) says nothing while the mutex is held, which is when everything happens. `Place(l)` is the
  place of the thread that holds it, if it is at list `l`; `SizeInv` and `BlockInv` say for each place where
  the elements are (in the old block until `Relocate`, in `destination` until `AdoptArray`, then in `mArray` again),
  which blocks are allocated and with how many cells; `OwnerInv`, that the two lists and the reallocation under way share
  no block, so that a step at one list leaves the other as it was. One lemma per step; `AtRest` is the other list.
* `WritersInOrder` (`WriterOrder`) from `OrderInv`: every message that was given is appended, given up, or the one its
  writer is about, and never two of these; and each list has the messages of one writer in the order of their numbers.
* `QuietReadsAreRight` (`QuietReadIsLast`) from `ReaderInv`: what a read that no append overlapped has seen of the size and
  the address is still so, and with `BlockInv` the cell it copies is the last message.

`SequenceStore_proofs` proves, for any Sequences, values, sizes, additives and blocks (`BlockAssumption`: addresses are
positive; `TempAssumption`: no object of the user is called "t"):

* `BlocksHaveOneOwner` (`OneOwnerEach`): no block leaks and none is freed twice, at any step of any member function and
  after any allocation that fails. Who owns what next depends on the program that is still to run, so the
  invariant (`ProgramInv`) is about that program: either it works on the user's objects only (`OwnProgram`) and every
  allocation in it is followed by the construction and the `adopt` of that block; or it is what is left of the program
  of an assignment (`TempProgram`), which can be told from its length. Only the last two steps of that, the swap and the
  destructor, run with a block in the temporary, and neither allocates; a block being filled is adopted next.
* `CallsLeakNothing` (`NothingLeaks`, stated in the module): between calls the allocated blocks are those of the
  user's objects, however the calls before ended.

`SequenceLifetimes_proofs` goes on from `SequenceStore_proofs` to what the blocks hold (`CellAssumption`: raw and
moved-from cells are no values; `BoundAssumption`: the bounds are naturals). Its theorems are for callers that never hand a full
Sequence an element of its own (`~OwnAtCapacity`); `sequence_alias` shows what happens otherwise, no caller in the program
does it, and the runs that check these properties leave it out too.

* `LifetimesMatch` (`LifetimesMatchSize`) says something between calls only. `CellInv` says it of every step. The block
  of each object is built exactly up to its size, at all times; what may be moved from, and what is being built, follows
  from the program that is still to run, in one predicate for each step it may begin with. In `Shifting` (the loop of `erase`)
  only the cells from its target to its source are moved from, and the truncation that follows takes off as many
  objects as that gap is wide; in `Refilling` (`swap_with_last_erase`) the source is as far from the end as elements have
  been taken, so that the two ends of the loop may cross; in `Constructing` the first `built` cells of the new block are
  values, and so is what is left to take. `Appends` says of an argument that it outlives a reallocation or that there is
  room for all of them.
* `NeverUndefined` (`NoUndefinedBehaviour`): no raw cell is read, assigned or destroyed, nothing is constructed over an
  object and nothing freed is touched. It is a conjunct of `CellInv`, since each step's case must show that it does not
  end it.
* `SizeFitsInBlock` (`FitsInBlock`) and `MembersKeepTheirTypes` (`TypeOK`) follow.

`Main_proofs` proves, for any number of payloads, buffer limit and keys (`LoadsAssumption`: main makes one call for each
payload and one for all; `TableAssumption`, `ConnectionAssumption`: it names three columns and connects once;
`PromptAssumption`: the terminator cannot be typed):

* `MainIsACaller`: `MainSpec => Spec`. main's steps are steps of an `SQLInserter` or leave it alone, so that every theorem of
  `SQLInserter_proofs` holds of the composition.
* `MainLeavesNothing` (`NothingLeftBehind`) and `MainAnswersEveryPayload` (`EveryPayloadAnswered`) from `CallerInv`: where
  main is tells how many calls it has made; nothing is ever abandoned, as it connects once; and if the rows of a call are
  stored without its answer saying so there is no open session any more, so that no second call can do the same.
* `PromptFaithful` (`PromptIsFaithful`) from `PromptInv`: while the user types, the Sequence holds printable characters,
  within the limit and as many as there are asterisks; then the terminator, which cannot be typed, is behind them.

`Extract_proofs` proves, for any number of calls and entries (`ExtractAssumption`), `ListsInOrder` (`EntriesDoNotMix`) from
`Inv`: in each sheet the elements are each of one entry, stand in order, and are of calls made so far, so that what a retry
appends comes behind them. `RefusalsLeaveNoTrace` is the action property `RefusedLeavesSheets`, by cases over the functions.

`WebPayloads_proofs` proves, for any numbers of calls, chunks, payloads and labels, any recipients, bodies and content types:

* `HandlesTell` (`HandleTells`), from `LogInv`: no message in the log is of a call that is yet to be made, so that the
  last one cannot be taken for one of the next call.
* `HoldsSuccesses` (`HoldsWhatSucceeded`): each call of `PayloadArray` adds its payload to the array and to `accepted`, or to
  neither.
* `StoredAreGoodAnswers` (`StoredIsGoodAnswer`) needs an invariant of the handles of both requests: `is_good` is
  all that `try_make_payload` looks at, and it implies a whole body and a log without an error, or a whole body and
  a good status.

TLC checks each of these formulas on a small instance first. Every type invariant, safety invariant and action property
that a passing run checks is a theorem, but for `EveryStepGetsCloser`. What stays with TLC:

* liveness under fairness (`Termination`, `MainEnds`, `EveryWriteReturns`, and the fairness in
  `ImplementsBatchFetch`), which TLAPS does not reach;
* `EveryStepGetsCloser`, whose measure is a fold over the program, an induction over data;
* `ImplementsList`, that `SequenceStore` implements lists. `CellInv` says which cells have values; the refinement needs
  which values, at every step of every program.

## What was found

* `push_back(const T&)` of an element of the same full `Sequence` reads freed memory (`sequence_alias`;
  Sequence.h:345-368). `resize(count, value)` is written so as to have the same hazard. No caller does this.
* `last_log` and `last_error` do not take the mutex that the writers take (`logger_race`; Logger.h:49-59). The
  program as it stands logs from one thread.

* A web answer of type `application/json` is refused as "Not a json"; the comparison is inverted (`payload_type`;
  Payload_array.cpp:63).
* `validate_certificate` promises an entry in the error log for each failure and writes none (`certificate`;
  libcurl_request.h:27-47). Nothing calls it.
* The test of `std::from_chars` is inverted, twice: well-formed steamids are "Malformed", some malformed ones are
  accepted as 0 (`steamid`; extract_and_bind.h:76 and 241; `Extract!Malformed` is the test as written).

Seen while modelling, in code that is translated as it stands or left out, and not the subject of a run:

* Achievements without a steamid are accepted, against the message and comment of the check meant for them
  (extract_and_bind.h:235-245).
* `makeurl_player_level` takes a steamid for which its format has no `{}` (steam_urls.cpp:18), so that its URL asks about
  nobody.
* `create_custom_table_command` writes the comma after a column instead of before it, against its comment
  (custom_sql_command.h:61): with the columns a and b of type INT the text has `(a INTb INT, );`.
* `parse` gets the body of an answer without its length (Payload_array.cpp:69), and a libcurl body has no terminator.

## What is not modelled

* libcurl, the MySQL connector and server, nlohmann::json: external; modelled by what the code can see of them.
* Exceptions thrown by an element's copy constructor inside `Sequence` (Sequence.h:79), and `bad_alloc` thrown by
  `call_back` through libcurl: what happens then is undefined.
* The width of `size_type`: capacities that overflow cannot be allocated.
* What no comment can be held against: `MoveIn` consumes its argument also when it refuses it, `achieved` is
  indeterminate unless the document has a boolean there; both are in the list of hazards.
* The `string_view` that `validate_certificate` passes through varargs (line 37): undefined behaviour with no outcome to
  choose from.
* Message texts and certificates: copied and never decided on.
* `steam_urls`, `create_custom_table_command`: functions without state that put constant text together, and are called by
  nothing.
* `inject_from_file` does nothing, `call_procedure` has no body, and a `Payload` with empty optionals is outside the
  binding functions' contract.
* `Stopwatch`, `RandomNum`, `BadException`, `Stuff.h`, the concepts and the rest of `bad_utility.h`: a clock, a random
  generator, console output, text and one-line arithmetic, without state that another part reads; most of it is called
  by nothing. `steam_sql_commands.h` is constant text. What is left of the repository is third-party code.

## Plan

Order of the modules, the most important behaviour first:

1. done: `MultiRequest` over `BatchFetch`; `SequenceStore` over `SequenceList`; `Logger`; `InsertStatement`,
   `SQLInserter` over `BulkTable`, `CharBuffer`, `Main`; `WebFetch`, `PayloadArray`, `WebPayloads`; `Extract`. With
   these every function of the program that changes state is in a module.
2. done: for all values of the constants, every type invariant, safety invariant and action property that the runs
   check (but `EveryStepGetsCloser`), and the refinements of `BatchFetch` (its safety) and of `BulkTable`.
3. Theorems: the refinement of `SequenceList` by `SequenceStore`. `CellInv` would have to relate the cells to `shown` and to
   the call under way: what each program has still to do, done to the cells as they are, gives the list that the call
   promises. It divides by member function, and `push_back` and `swap` need little more than what is proved.
4. Should the program get a caller that takes the results of `multi_request_data` to `inject_bulk` (today `main` makes
   up its payloads): the composition of `BatchFetch`, `PayloadArray` and `BulkTable`, with one property over all three.
