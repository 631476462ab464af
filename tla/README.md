# Expresso: a TLA+ verification development

This directory specifies the Expresso backend framework in TLA+, checks the
specifications with TLC on small instances and proves theorems about them with
the TLA+ proof system. Every definition is translated from the code; `PROJECT.json`
("map") gives the lines each one stands for.

## 1. Inventory

The repository holds two servers, a client library, a parser library and a
browser terminal. The deployed program is the Rust one (Dockerfile, render.yaml,
docker-compose.yml); it links one C++ file.

| Part | Source | State it keeps | Operations | Talks to |
|---|---|---|---|---|
| Kernel | expresso-rs/src/main.rs, handlers.rs (9-41), parser.rs | the pool's queue, one connection per worker | accept, queue, parse one request, dispatch, answer, drop the stream | clients (TCP), engine (FFI), files |
| Files | expresso-rs/src/handlers.rs (60-191) | the directory EXPRESSO_DIRECTORY (no locks, no cache) | get, list, post, mkdir, delete, clear, static pages | the operating system |
| C++ engine | expresso-server/src/bridge.cpp, expresso-rs/src/server_cpp.rs | one static 256-byte buffer for all threads | cpp_process_command, copy of its answer | kernel |
| Simulated C parser | expresso-rs/src/parser_c.rs | none | prints one line | kernel |
| C++ server | expresso-server/src (core, io, utils, config, main.cpp) | one detached thread and one growing buffer per connection; two global directories | accept, read_request, route, answer, keep alive or close | clients, files |
| C parser library | expresso-parser | heap structures of one request | parse, build, serialize, free | the C client, the C++ server (optional build) |
| C client | expresso-requests/ExpressRequests.c | one socket and buffer per call | send_req, decode_chunked | any server |
| Terminal | docs/app.js | command history, the file in the editor | ls, cat, nano, touch, rm, cp, mv, ... with one retry of a failed fetch | kernel, through nginx |
| Deployment | nginx.conf, docker-compose.yml, Dockerfile | the volume /data | proxy, restart | all |

What is hard about each part, and what makes it correct:

- **Kernel.** Four threads, blocking reads without a timeout, errors that end the
  process (`stream.unwrap()`), panics that end one thread, clients that stop or
  vanish at any byte. Correct means: no accepted connection is lost or served
  twice; a handler never runs on less than what was announced; a connection
  dropped without an answer had no effect; a cooperative client is answered.
- **Files.** Every handler is a sequence of system calls, and four of them
  interleave on the same names: exists/read, truncate/write, is_dir/remove,
  list/unlink. Correct means: a request that nobody disturbs answers and acts as
  an atomic store would; a 201 was really written; bytes come from some request.
- **C++ engine.** The static buffer is written by one thread while another scans
  and copies it. Correct means: every scan ends inside the buffer, a call that
  runs alone returns its own text, the literal answers are never mixed up.
- **C++ server.** The reader rescans a growing buffer from a moving start, keeps
  the connection alive, and answers some requests without saying where the answer
  ends. Correct means: requests are cut out of the stream exactly, no complete
  request is overlooked, the client can tell that an answer is complete.
- **C parser, C client, terminal.** Ownership of heap memory on error paths,
  bounded serialisation, chunk decoding over arbitrary splits; a client that waits
  for the end of the stream against a server that keeps it open; retries of
  requests that already took effect, compound commands (mv) with a failing step.


## 2. Modules

| Module | Models | Composition |
|---|---|---|
| `Kernel` | one connection after the other through accept, queue, worker, parser, handler, answer; clients that stop, end or reset at any point; panics; the death and restart of the process | the file handlers and the engine are one step each ("effect", "panic"); `FileStore` and `CppEngine` open them up |
| `FileStore` | handle_get, handle_post, handle_delete, one system call a step, on one directory shared by the workers | the step "effect" of `Kernel` |
| `DirectoryStore` | what the file handlers promise: a request takes effect and is answered in one step | `FileStore` implements it: its property `ImplementsDirectory` |
| `CppEngine` | cpp_process_command and its Rust caller, one cell of the shared buffer a step | the calls of `Kernel`'s handler |
| `RequestReader` | one connection of the C++ server and a client that sends one request at a time | the server end of `ExpressoClient` |
| `ExpressoServer` | the process of the C++ server: accept loop, threads, descriptors, one file with the buffers of its streams, the events that end the process | the threads of `RequestReader`'s connections, which it sees receive a request in one piece |
| `ParserLibrary` | the C library: building, serializing, parsing and freeing one request, and the blocks it holds | its texts are those `ExpressoClient` sends and `RequestReader` cuts |
| `Terminal` | the file commands and the editor of docs/app.js over its fetch | the kernel's files, one request at a time |
| `Chunked` | decode_chunked as a function, the encoding as another, and a definition of what is a body in chunks | used by `ExpressoClient` |
| `DecoderInputs` | an input to decode_chunked that grows byte by byte, and DecodesExactly | gives `Chunked` its inputs |
| `ExpressoClient` | one send_req against any server | a server that ends its connections |
| `MC...` | the constants of the runs | |
| `...Proofs` | the theorems, checked by TLAPS | |

### How state and actions correspond to the code

**Kernel.** `phase` of a connection is where its TcpStream is: the kernel's
backlog, the pool's queue, a worker, dropped. `pc` of a worker is the line of
`HttpRequest::parse` or `handle_connection` it is at; `sent` and `peer` say how far
the client's bytes and its end of the stream have come, in the units the parser
tells apart (request line, headers, body). `Accept` is `listener.incoming()` with
the `unwrap` that `AcceptFails` is the other outcome of; `Take` is the pool handing
a job to a thread; `ReadLine`, `ReadHeaders`, `CutHeaders`, `ReadBody` and
`ParseFails` are the reads with each result. A header line that is not UTF-8 fails
its `read_line` (`utf8` of a request), and the end of the stream behind the line that
announces a body goes on to `read_exact`. `Panic` is the `unwrap` of
`CString::new`, after which `Replaced` is the thread the pool starts instead;
`Handle` and `Respond` are the handler and its answer. `Restart` is the container's.

**FileStore.** A name is absent, a directory or an inode; an open handle keeps the
inode, so a write after an unlink goes where the code's goes. `FirstCall` is the
dispatch, each other action one system call of one handler with its error paths.
`write_all` is `Write` in pieces of any size. A directory is read with one getdents
after the other (`Entries` of a listing, `Children` of a removal), each finding some
of the names that are not read yet and are still there, so names come and go between
two of them; `todo` is what is unread. `remove_dir_all` removes what one read found
before the next and stops at the first error; `create_dir_all` tries the directory, its parent, and the
directory again, as the standard library of Rust 1.75 does. `clean` and `before`
are ghosts that only the property reads.

**CppEngine.** A cell is what one store writes. snprintf first ends the string at
its first cell (glibc), then fills and ends it; `Scan` and `Copy` are
`CStr::from_ptr` and `into_owned`. No step of one thread waits for another one:
that is the code's data race, as every order of the single stores and loads.

**RequestReader.** `len`, `searchFrom` and `outLen` are the variables of
`read_request`. A request is the length of its head and of its body. `Recv` is one
turn of the loop with the search and the moving of `search_from`; `GiveUp` is every
way it returns false; `Respond` is the handler, the freeing of the buffer and the
decision to close.

**Chunked, ExpressoClient.** `Decode` follows the loop of decode_chunked from place
to place. `SizeOf` is strtoul of base 16 in the C locale, on a size line: white space (CR
and LF count as such), a sign and `0x` are skipped, a line without digits is 0 and leaves
errno alone (as in glibc), a minus negates modulo `Word`, and `InRange` is errno.
The sum with the place of the data is taken modulo `Word` too, 2^64 in the code: where it
wraps the decoder does not return (`Never`). In the client `Told` is the body a
Content-Length tells of, none if it is empty, as strtol makes 0 of it; and `pc` is the stage of send_req, `owned` the memory and the
socket it holds; each return frees exactly what its code frees. The response is a
sequence of bytes of which the server has written `wrote` and the client received
`rlen`.

**DirectoryStore** is an abstract specification and maps to no code. A name holds a
kind of thing, a request is made and answered, and in between it takes effect once,
if no overlapping request can disturb it; a disturbed one may answer anything its
handler can say. The effect of a listing is to be opened; afterwards it finds its names
one read at a time, each name at a moment when it was there. `FileStore` maps `kind` to `KindNow`, which hides the inodes, and the
answers to `OutNow`.

**ExpressoServer.** `desc` is the process's table of descriptors; `fd` is
`client_fd` in a thread, so `OwnConnection` says that the number still means the same
socket. `Accept` is one turn of the loop; with no free number it fails and is called
again, which changes nothing. `Recv` hands over the first request of what was received
and drops the rest, as the free of the buffer does. `OpenRead`, `Read`, `ReadRest` and
`Check` are `read_file` and the second ifstream of handle_get, which holds a
descriptor until `CheckEnds`; `Create`, `Write` and
`Flush` the opening, the `<<` and the destructor of `write_file`'s ofstream. A body
below 1024 bytes stays in libstdc++'s buffer until `Flush` and counts as `Small`.
`Die` is the end of the process by `ThreadFails` (std::system_error), a bad length in
`Recv` (std::stoull) or `Killed` (SIGPIPE).

**ParserLibrary.** A text is a sequence of words and separators with widths.
`Serialize` prints the `Pieces` one after the other; `ParseText` follows
parse_http_request with its two calls of strstr, strtok_r as `Fields`, and each way
out with the blocks it loses. A header line is split at any colon, and its value begins
two bytes behind it whatever stands there (`HeaderValue`): a line that ends at its colon
takes its value from the next line (`RunOn`), or, the last one, from behind the copy of the
block (`ReadsBeyond`); `Behind` says what two bytes of a word that is cut in half leave. A
library that used memory that is not its own is `broken`, and what follows is not
looked at; `live` counts the blocks that are allocated, `Lost` those of them that do not
belong to the request.

**Terminal.** A run is one command or one save. `stage` is the await it stands at;
`wire` where the fetch's request is. `Rejected` is a fetch that fails, whose request
may be served later all the same (`late`, where the number of the attempt tells two
requests of one fetch apart); `Retry` is the wrapped fetch, `Thrown` the
catch of the command. The requests are served by handlers.rs: `Handle` and `Outcome` are its
three handlers, an upload empties its file first and writes or fails in a later step
(`uploads`, `Write`, `WriteLate`), so that both attempts of one fetch can be at work at once;
a get is one step and an upload writes in one, since no property speaks of what a get
reads beside an upload of the same file. Each handler can also fail. `clean` is a ghost: no other command on the same file overlaps.

## 3. Runs

| Run | Property | What it says |
|---|---|---|
| `kernel` | TypeOK | types and, for each place of a worker, what it holds |
| | ExclusiveService | an accepted connection is once in the queue or with one worker, through panics and restarts |
| | SilentCloseIsHarmless | a connection dropped without an answer ran no handler |
| | NoShortBody | a handler runs on the whole announced body, or on one of the two kinds of part the parser accepts |
| | CooperativeClientsServed | with one silent client and two workers, the other client is answered, unless its request line, path or headers (not UTF-8) are refused |
| `files_atomic` | TypeOK, UndisturbedIsAtomic | a request no overlapping one can disturb answers and acts as on an atomic store, whatever happens on other names |
| | ImplementsDirectory | every behaviour of `FileStore` is one of `DirectoryStore` |
| `files_live` | EveryRequestAnswered | no loop of a handler runs for ever |
| `files_mixed` (violation) | AckedUploadIsStored | two acknowledged uploads of one name leave a mixture |
| `engine_buffer` | TypeOK, InBounds, AloneExact | the race never leaves the buffer; a call that runs alone is exact |
| `engine_audit` (violation) | AuditNamesCommand | an audit header can carry another command |
| `reader` | TypeOK, DeliveredExactly, NothingOverlooked, ToldExchangeEnds | exact cutting of requests; no blank line is overlooked; an answer that tells its end is seen to end |
| `reader_body` (violation) | CompleteRequestHandled | an upload whose body comes late is never handled |
| `server` | TypeOK, OwnConnection | a descriptor means the thread's own connection from accept to the one close |
| | GetSawFile | a get answers what the file was at some moment of it |
| | CreatedIsStored | a 201 is true, except for a small body whose flush failed |
| | PlainServed | whoever asks to close and does not linger is answered, also if accept failed in between, unless the process ends |
| `clib` | TypeOK, RefusesOnlyTooLong | serialize_request refuses exactly what does not fit |
| | RoundTrip | what was serialized is parsed as itself, save a request without header and body, and one with the end of a line in a header's value, which only parsing a line that ends at its colon makes |
| | NothingLeaked | no block is lost but by parsing a malformed first line, or into a request that holds something |
| | DecodesExactly | decode_chunked accepts exactly the bodies in chunks, and returns unless a size wraps |
| `terminal` | TypeOK, NothingLost | cp and mv keep the only copy of a file, whatever request or answer is lost or repeated. Excepted are: a file moved onto itself (it is deleted), other commands or older requests on the same files, a body that was read while it was written, and a late attempt of the upload that breaks off behind the DELETE of mv; while one writes, the file may be empty for a moment |
| | SuccessIsTrue | what is printed as done has been done and stays so. Excepted besides those: touch, which prints its success whatever the answer, and that "Moved" does not say the source is gone |
| | CommandEnds | a command ends, whatever fails |
| `client` | TypeOK, WholeRequestSent, NothingHeld, OnlyWholeBodies, CleanExchangeSucceeds, Returns | see the comments in the module |

The three violations are real disagreements of the code with a line of its documents
or of its terminal; `PROJECT.json` ("findings") quotes them.

**Bounds.** `kernel`: two connections and two workers, one restart; a third
connection would only wait in the queue, and ExclusiveService is proved for any
number. With as many silent clients as workers
CooperativeClientsServed does not hold: nothing bounds a read. `files_*`: two workers, since every property speaks of one request and what
another one does to it; two names, so that work on one can be seen not to disturb
the other; bodies of one and of two blocks, so that a short and a long body can mix
and a write can be short. `files_atomic` has every operation on one name, and uploads and
mkdirs on the other, which are what can meet a missing root or come and go under a listing;
`files_live` the four requests whose handlers loop (get, upload, clear, list), on one name. `engine_*`: four cells with texts that fit, fill and
overflow them, two threads. `reader`: heads and bodies from shorter than one receive
to longer than the limit; `MaxRounds` two requests more on the same connection.
`server`: six plans of what two or three clients send,
with two to four descriptors: two uploads at once, a get beside an upload of each
size, a client that keeps its connection and a last one that finds no descriptor free,
keep-alive with a request sent too early, a bad length. `terminal`: two runs out of
six commands, and the saves of the editor, on two names, one request that is late, one
write call for each upload; two runs are
enough, since each property speaks of one command and what another one does to it.
`clib`: two headers out of three, two parameters out of two, a buffer that half of the
requests fit, with some that fit it exactly; texts to parse for each way
out, among them texts without an end of a line and header lines that end at their colon;
no block may be lost before the last text is parsed (`MaxLost`), so that the count stays
finite. Its bytes for decode_chunked: nine bytes hold a chunk of one byte and the end, and every other
arrangement of four bytes, among them data that looks like a size line, also behind
beginnings with white space, a sign and `0x`; `Word` is 17, so that a sum wraps. `client`:
a buffer of six bytes with
requests that fit it exactly and that exceed it by one in their head or body, a
receive buffer that has to be doubled three times, a Content-Length that is empty and one
that is no number.
`VIEW` in `files_atomic` leaves out the blocks of free inodes, and the requests and answers
of disturbed requests that are finished: no later step and no invariant reads them, and
ImplementsDirectory compares them in the step that makes them. `SYMMETRY` is used only
where no liveness is checked.

**Deadlock** is checked in the runs of `FileStore` and `CppEngine`, whose workers
can always begin again. In the others the bounded clients may have nothing left to do, or the process has ended.

**Fairness.** A thread that can take a step takes one some time (weak fairness per
worker, client call and connection thread), which is what the operating system's
scheduler gives. What has been sent arrives. No client is obliged to connect, to
send or to hang up, except that `Kernel`'s clients outside `Silent` send what they
announced, and that the server of `ExpressoClient` ends its connections, as the
kernel does behind each answer (handlers.rs:43-58 takes the stream and drops it) and
the C++ server when asked to. The first is the premise of CooperativeClientsServed,
the second the one of Returns, and the clients of
`ExpressoServer` that do not linger send and leave: send_req has no timeout, so without it neither holds.

## 4. Proofs

TLAPS checks these for every value of the constants that the named assumptions
allow: any number of clients, threads, workers and requests, any size of buffer,
any bodies. Where a theorem states a property, a run of section 3 shows it on a
small instance, and the inductive invariant was checked by TLC before it was proved.

| Theorem | Assumption | Argument |
|---|---|---|
| `KernelProofs!TypeCorrect` | KernelAssumption | TypeOK is inductive |
| `KernelProofs!ExclusiveServiceHolds` | KernelAssumption | PoolInv: a worker's place and its connection agree (Coherent), everything queued or held was accepted (HeldIsAccepted) and the other way round (AcceptedIsHeld), once (HeldOnce). ExclusiveService alone is not inductive: it does not say that an idle worker holds nothing. |
| `KernelProofs!SilentCloseIsHarmlessHolds`, `NoShortBodyHolds` | KernelAssumption | HandlerInv, relative to PoolInv: a connection with an effect is held by a worker about to answer, or answered, or reset (AnswerFollows); what a worker has parsed was sent, or was cut by a client that sends no more (ParsedWasSent). PoolInv gives that no second worker holds the connection, so nobody else can drop it in between. |
| `FileStoreProofs!StoreTypeCorrect` | FileStoreAssumption | FileInv: a worker is at a call of its request's handler (CallFits), and an inode that is open is in the directory under that request's name or nowhere (OpenUnderItsName). There are more inodes than open handles and names, so that `Create` always finds a free one (`ValuesCounted`). |
| `FileStoreProofs!StoreUndisturbedIsAtomic` | FileStoreAssumption | StoreInv adds what an undisturbed request has seen and done at each call (UndisturbedSoFar) and that nobody who could disturb it is at work (UndisturbedInv). Every step of another worker that changes the directory is one of a request that disturbs it, or leaves what it has seen as it is. |
| `FileStoreProofs!StoreImplementsDirectory` | FileStoreAssumption | the refinement, step by step, from FileInv: a get has its effect when it opens the file, an upload when it creates it, every other request in the call that decides its answer (GetSteps, PostSteps, MkdirSteps, DeleteSteps); making the root and removing one entry of it are steps of the store too, every other call is a stutter |
| `CppEngineProofs!EngineTypeCorrect`, `InBoundsHolds` | CppEngineAssumption | BufferInv: no store reaches the last cell with anything but NUL, because a thread that fills is never further than the cells it keeps |
| `CppEngineProofs!AloneExactHolds` | CppEngineAssumption | AloneInv: in a call that is alone, the cells before the writing place hold its text, its end is set, and the scan has not passed it |
| `RequestReaderProofs!ReaderTypeCorrect`, `DeliveredExactlyHolds`, `NothingOverlookedHolds` | RequestReaderAssumption | ReaderInv: the search always goes on three bytes before the end of the buffer, so a blank line that begins earlier has been seen; a request begins on an empty buffer |
| `ExpressoServerProofs!ServerTypeCorrect`, `ServerOwnConnection` | ExpressoServerAssumption | ServerInv, its parts TypeOK, OwnConnection and StillOwed: the least free number names nobody's socket and no open file, and a thread clears `client_fd` in the step that frees it; a request in a thread is one its client still waits for |
| `ExpressoServerProofs!ServerGetSawFile`, `ServerCreatedIsStored` | ExpressoServerAssumption | the other parts of ServerInv: a thread is at a step of its request's handler (StageFitsRequest); the file's content is among what each get in progress has seen (SeenInv); between the opening and the flush of an upload that is alone the file is what it made of it (AloneInv) |
| `TerminalProofs!TerminalTypeCorrect` | TerminalAssumption | FetchInv: a run is at a stage of its command (RunFits), and a request nobody waits for is one that its run has sent, and sent again (StrayFits) |
| `TerminalProofs!TerminalNothingLost`, `TerminalSuccessIsTrue` | TerminalAssumption | RunInv: what a run that nobody meets has got to at each await (RunSoFar). The parts about late requests are the point: one of them repeats what the run has done, a late delete is there only behind the copy, and a file that an attempt of an upload has emptied is to be written by an upload of the same body (`Stored`). |
| `ExpressoClientProofs!NothingHeldHolds` | none | HeldInv: the place of send_req determines what it holds |
| `ExpressoClientProofs!ClientTypeCorrect`, `WholeRequestSentHolds` | ClientAssumption, ChunkedAssumption | ClientInv, its parts BufferInv, which gives the bounds of both buffers in TypeOK (what is printed was compared with the room left; nothing is received before the buffer exists), and PrintInv: what is printed before the line `next` is as long as the lines before it (PrintedBy) |
| `ExpressoClientProofs!OnlyWholeBodiesHolds`, `CleanExchangeSucceedsHolds` | ClientAssumption, ChunkedAssumption | its part BodyInv: what was received is the beginning of the response. With a length the comparison decides; in chunks, DecodeUndoesEncode does |
| `ExpressoClientProofs!DecodeUndoesEncode` | ChunkedAssumption | decode_chunked makes of an encoded body its data, and of one that is cut anywhere the whole data or an error. By induction over the chunks: standing at the beginning of a chunk the decoder stands at the beginning of the next one, or has rejected what is cut within it |
| `ExpressoClientProofs!DecodesExactlyHolds` | ChunkedAssumption, DecoderInputsAssumption | of InputSpec: decode_chunked accepts an input exactly if it has places of size lines as `Chunkings` says, and its body is what stands at the places of their data, in order. From the end of the input back (DecodesFromEverywhere): if it is so from all later places it is so from here, as a place before others makes a tail of a body in chunks of theirs (TailStep), and one round of the decoder takes the data between (DecodeRound, ReadsMore). What a size line's value is does not matter to the argument but for its range: a sum that wraps ends the decoder in Never, which only a size line of the input can cause |
| `ParserLibraryProofs!ParserTypeCorrect`, `ParserNothingLeaked` | ParserLibraryAssumption | LInv, the two together: a member that is set adds a block exactly if it was NULL (StringsStored), a parse that succeeds makes a request (ParseTextType) out of a fresh one, and one that fails loses blocks only in parse_request_line; every other step changes `live` as it changes the blocks of the request |
| `ParserLibraryProofs!ParserRefusesOnlyTooLong` | ParserLibraryAssumption | by induction over the pieces: as long as all fitted, what is printed is as wide as they are together, and the first that does not fit is the one the sum exceeds the buffer with (RefusesTooLong). Width adds up over `\o` and FlattenSeq |
| `ParserLibraryProofs!ParserRoundTrip` | ParserLibraryAssumption, NoSeparators | CleanInv: the request holds no separator of the line or field it is printed in, because callers pass none and because what parse_http_request cuts out of any text has none left (ParseTextClean), except for the values of headers, which the property's hypothesis speaks of. The text of a clean request is a line, its headers, a blank line and the body (TextDescribed), the fields of lines put together are the lines (FieldsOfLines), among lines that are not empty there is no blank one (NoBlankLines), so each part is cut where it was put together (ParsedAsDescribed) |

**Induction.** A rule of induction that takes a predicate as its parameter cannot be
used with these provers, but the well-foundedness of `<` on Nat can: `WFMin` of the
library, about a set and a relation, gives `Least`, that a set of numbers with a
member has a least one, and from it `Induction`, that a set with 0 and all
successors holds every number. Each induction names its set of numbers.
`IterationExists` gives from it that functions defined by recursion over 0..n are
what their definition says, and `FlattenSeqFlattens` the same for FlattenSeq of the
community modules. DecodeUndoesEncode, OnlyWholeBodies, WholeRequestSent and the
theorems of `ParserLibraryProofs` rest on these. The chunks of `ExpressoClient` have
one-digit size lines (1 to 15 bytes); the model's encoder writes no longer ones, while
DecodesExactly is about size lines of any number of digits.

**NoSeparators** is the hypothesis of ParserRoundTrip about what callers pass: methods
and urls are not empty and hold no blank and no end of a line, keys hold no separator
between a key and a value (`:`, `=`), parameters no `&`, and a url with a `?` has a `=` in each of
its parameters. It is an assumption of `MCCLibrary` too, so the values of its run
satisfy it. It says nothing of bodies and of texts to parse, which may hold anything.
Without it the property fails, as nothing is escaped: a name with a separator is
parsed as something else.

**Model-checked only.** The liveness properties (CooperativeClientsServed,
EveryRequestAnswered, ToldExchangeEnds, PlainServed, CommandEnds, Returns), which need
ENABLED. Every other property of the passing runs is stated by a theorem.

## 5. Not modelled

- The socket's send buffer: a client that does not read its answer (it would hold a
  worker as a silent client does), and the limit of the listen backlog.
- The memory a Content-Length reserves; lengths are small.
- The letters of paths, headers and bodies; nested directories; names that leave the
  directory; the static pages.
- Compression (zlib), /echo and /user-agent of the C++ server, time, and the commands
  of the terminal that only print; its history and input line.
- The C library's functions for responses (their parser is declared and not written),
  memory that runs out in it, and a body whose length is not that of its text.
- The listening socket's set-up and the settings of main.cpp.
- `parser_c.rs`, which does nothing, and the build and deployment files.

## 6. Plan

Done, in the order of importance: the kernel, its files and their abstract store, the
engine, the C++ connection, the C client, the C++ process, the C library, the
terminal; the theorems of section 4. Next:

1. `KernelFiles`, the kernel's workers composed with the store, for "a lost answer may
   or may not have taken effect".

Runs that answer one question together are merged as modules are added, so that
their number stays small.
