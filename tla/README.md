# apophnia in TLA+

apophnia is an image server. A client asks for `cat_r500x500_q60.png`; the
server looks for that file, and if it is not there it cuts the directives
`q60`, `r500x500` off the right end of the name until a shorter name exists,
applies them to the picture it found, writes the result under the requested name
so that the next request finds it, and sends it. The image directory is the
cache, and the only thing the workers share on purpose.

This directory holds TLA+ modules that model the program, TLC configurations that
check them on small instances, and proofs checked by TLAPS for all instances.
Paths and lines refer to the repository root; `apophnia.c` is
`C/apophnia.c`, `mongoose.c` is `C/mongoose/mongoose.c`.

## 1. The system

| Part | Source | State | Operations |
|---|---|---|---|
| Request handler | apophnia.c 483-708 `show_image` | locals of one call: name, `ext`, stack of directives, `fd`, wand; the image directory | find, cut, fall back, convert, write, reopen, send |
| Directives | apophnia.c 229-250, 393-481 | the wand | load, offset, quality, resize |
| 404 answer | apophnia.c 269-310 `do404` | static `buffer`, `len`, shared by all workers | load once, send |
| Configuration | apophnia.c 76-125, 710-802, 873-910 | `g_opts`, `ix` | walk over the option table, change directory, start |
| Thread pool | mongoose.c 4842-5180 | ring `queue`, `sq_head`, `sq_tail`, `num_threads`, `stop_flag`, mutex, three condition variables | accept, produce, consume, serve, stop |
| Connection loop | mongoose.c 888-899, 1473-1535, 1788-1807, 2842-2889, 4733-4839 | `struct mg_connection` of a worker: buffer, lengths, request info | read, parse, check, handle, discard, go on |
| Files | mongoose.c 2225-2947, 3316-3596, 4185-4274 | the directory tree; locals of `handle_request` | authorize, serve, range, 304, list, include, store, delete |
| CGI | mongoose.c 1375-1423, 2949-3310 | pipes, descriptors, pids | spawn, forward, pass on, kill |
| Text, URI and buffer functions | mongoose.c 700-883, 1537-1873, 2487-2505, 2820-2830, 3841-3858, 4044-4151, 4408-4431 | none | decode, split, match, fill |
| JSON | cJSON.c | trees of items linked both ways | parse, print, add, detach, replace, delete |
| Update check | apophnia.c 312-391 `check_for_change` | none | compare times, unlink; never called |
| Main loop | apophnia.c 804-857 | inotify descriptor, `i` | select, read, log |
| SSL, Lua, websockets, SQLite, samples | vendored | | not modelled |

How they interact. `main` reads the configuration, changes into the image
directory and calls `mg_start`, which starts one master and `num_threads` workers.
The master accepts connections and hands them to workers through the ring.
A worker reads requests from its connection into one buffer, parses each and
calls `show_image` as its `begin_request` callback. That callback answers every
request, so mongoose's own handlers (files, CGI) run only in the programs that come
with it, `C/mongoose/main.c` and the tests; they are modelled as `handle_request` calls them.
`read_config` uses cJSON. Handlers of different workers run concurrently with no lock: they meet
in the image directory (open, truncate-and-fill, open again), in `do404`'s static
variables and in the process's table of descriptors. `main_loop` then only logs
inotify events. Nothing in apophnia calls `mg_stop`; a process ends by being
killed, and what survives is the directory.

What is hard here:

* The handler checks that a name is absent, and acts on that much later, when
  other handlers, the operator or an earlier life of the process may have changed
  the directory.
* A converted file is filled in place under its final name, so it can be found,
  served, and used as a source, before it is whole; and two workers can fill it at once.
* The results of the calls after the search are not looked at, so a full disk, a missing
  permission or a directory turns into a read loop that never ends.
* The search is two nested loops with one `break` each and variables that keep
  their last value.
* The 404 image is loaded without a lock, and read to its end whatever the size it had a moment before.
* The option walk reuses its own index and writes numbers past the fields they belong to.
* `struct mg_connection` outlives its connections: after a failed read the loop computes
  with lengths and strings of an earlier request, or of none.
* Two requests to one tree: a stat, an open, a truncation and a write are four moments,
  each of which the system may refuse; the answer to a PUT is sent before its last bytes are.
* A forked program inherits every pipe of the server, and its pid is free again before
  it is killed.
* The ring's indices wrap; its condition variables are signalled once per
  connection; the stop flag is read and written outside the mutex.

What makes each part correct: the cache holds under a name the picture that
name means, and a client gets the picture it asked for, whole; what the operator
stored is found and never overwritten; requests are answered; the 404 buffer
settles; the configured values reach the running server; connections are served
in order, each once, and none is left waiting beside a sleeping worker; the
context is freed last; requests of a connection are answered in order from exactly
their own bytes; a file's answer is as long as announced; a 304 is true; a stored body
is what was sent; no program, pipe or file is left behind; what is printed is parsed
back, what is encoded decoded. PROJECT.json lists the hazards at their lines with the
properties that speak of them.

## 2. The modules

| Module | Models | Kind |
|---|---|---|
| `ImageCache` | what clients see: a cache of pictures that fills itself | abstract state machine |
| `ShowImage` | handlers of several workers over one directory, the operator, kills | state machine, refines `ImageCache` |
| `MCShowImage` | names, files and workers for TLC | instance |
| `ShowImageProofs` | types, the cache's faithfulness, the stack's bound; stored images kept and found, hangs explained, the clean cache, refinement | proofs |
| `SocketQueue` | what the ring promises: a bounded queue | abstract state machine |
| `WorkerPool` | master, workers, ring, shutdown | state machine, refines `SocketQueue` |
| `MCWorkerPool` | workers for TLC | instance |
| `WorkerPoolProofs` | indices, wake-ups, nobody stranded, shutdown order, refinement | proofs |
| `NotFound` | `do404` run by several workers | state machine |
| `MCNotFound` | workers and images for TLC | instance |
| `NotFoundProofs` | bounds, settling, cost, framing | proofs |
| `Config` | `read_config` and `main` up to the listening port | state machine |
| `MCConfig` | configuration files for TLC | instance |
| `ConfigProofs` | what the walk keeps, for every file | proofs |
| `Connection` | one worker and its connections, over one buffer | state machine |
| `MCConnection` | requests for TLC | instance |
| `ConnectionProofs` | lengths, the ways to die, the fatal silence, order of answers, bodies | proofs |
| `FileServer` | `handle_request` behind the callback, several workers over one tree | state machine |
| `MCFileServer` | a tree and requests for TLC | instance |
| `FileServerProofs` | one answer, no open file, inclusion bounded; what a GET sends, a 304 tells, a PUT stores | proofs |
| `Cgi` | `handle_cgi_request` of several workers, and their programs | state machine |
| `MCCgi` | programs for TLC | instance |
| `CgiProofs` | nothing is left behind, output whole | proofs |
| `Scans` | what the functions below share; cleaned paths, the CGI environment, SSI | operators |
| `Text`, `Uri`, `Buffers` | the other functions of mongoose.c on texts, URIs and buffers | operators |
| `Json` | cJSON's parser and printer | operators |
| `JsonList` | cJSON's list operations on a heap | state machine |
| `Directives` | apophnia's directives, update check and event loop | operators |
| `Forms` | one call of any of these functions, or operations of `JsonList` | state machine over inputs |
| `MCForms` | the inputs for TLC | instance |
| `FormsProofs` | what the list operations keep; cleaned paths, the environment and SSI for every input | proofs |

Operators named `X_Something` next to an action `X` are deliberately wrong
variants of it; each property of a passing run fails when one of them takes
the action's place.

### ShowImage

A name is a record of its segments between `_` and its extension. One action is one
system call, or one pass of a loop around it; `pc[w]` names the place.

| Action | Code |
|---|---|
| `Begin` | entry, 483-534 |
| `OpenExact`, `MissExact` | the first `open`, and the cut of the extension, 535-565 |
| `CutNone`, `CutHit`, `CutMiss` | one pass of the cutting loop, 567-597, 613-618 |
| `FallbackHit`, `FallbackMiss` | one pass of the fallback loop, 599-612 |
| `StatExact` | a file was found at once, 620-645 |
| `ReadSource` | `fstat`, headers, `image_start`, 620-653 |
| `Apply`, `ApplyEnd` | the directives popped off the stack, 654-675; the disk option, 679 |
| `WriteBegin`, `WriteEnd` | `MagickWriteImage`, 679-681, from truncation to end of file |
| `WriteFail`, `WriteCut` | the same, refused before it begins or stopped on the way |
| `Reopen`, `ReopenFail` | `open` and `fstat` of the result, 684-688, granted or refused |
| `Send`, `SendDir` | the read loop, 690-699 |
| `Replace`, `Restart` | the operator; a kill and a new start (outside the code) |

`fs` maps every name to what the directory has there. A picture is known by
where it comes from (`pix`: the stored base, then the directives applied), by the
version of its source and by whether it is whole. `filler` is the worker that is
writing a file; whoever reads it meanwhile sees part of it. A worker that starts to
fill a file which others are still filling with another picture spoils it.
`leaked` counts descriptors nothing refers to any more. The state `stuck` is the
read loop on a descriptor that never yields 0. The code looks at neither the result of
the write nor at that of the open behind it, so `WriteFail` and `ReopenFail` are possible at every write
and every open, whatever the reason (no space, no permission, no directory, no descriptor), and the handler goes
on. `WriteCut` leaves what was written so far. Two variables remember this for the properties: `failed` has the
handlers that were refused a call, `spoilt` the names whose file was last left by a write that stopped.

`ImageCache` is the same server without descriptors, searches and files that are being
filled. `ShowImage` implements it (`IsCache`): `stored` is `orig`; `shelf` has under a name the
picture its file is of, damaged or not, or that it is a directory; a client waits (`want`) from
`Begin` until its handler sends or gives up; `got` is what was sent. `Begin` is `Ask`, the beginning of
a write `Bake`, `Send` is `Show`, a 404 `Refuse`, a restart `Crash`. Everything else, the operator's
replacements among it, is not seen: pictures are known by what their name means, not by how they look.

### SocketQueue and WorkerPool

A section under the mutex is one action. The exceptions are where `stop_flag`,
which no mutex protects, may change at a bad moment: a worker's fall asleep is two
steps (`Doze`, `Sleep`), with the mutex held between them, and `return
!stop_flag` (4868) is a step of its own (`Return`), after the mutex is released.
The broadcast of 5024, made without the mutex, may fall between `Doze` and `Sleep`.

`SocketQueue` says what master and workers promise each other about connections:
a bounded queue that hands each to one worker, in order, and loses one only when the
server is stopping. `WorkerPool` implements it (`IsQueue`): the queue is the part
of the ring between tail and head, read modulo the ring's size. A worker's `serving`
is `client`, the master's `hand` is `so`.

### NotFound

`buffer` and `len` are the two static variables. Each action reads or writes them
as one statement of `do404` does. `room[a]` is the size of the a-th allocation, which is `len` as
any worker left it, and `filled[a]` the parts of the image that have been
written to it, by any worker: `ptr = buffer` (283) may take another
worker's buffer. An image may be empty; `malloc(0)` is a block like any other. `announced` is the
Content-Length, `sent` what follows it.

The loop of 286 reads to where the file ends now and compares nothing with the size `fstat` gave at 280, and
neither does `Read`: that it stays in the block is a property (`InBounds`), not a guard. `Change` is the operator who
writes another image into the file, at any moment; `moved` says that it happened under a load. What the memory behind
a block holds is not modelled: a read past it only adds to `filled`.

### Config

The eight bytes from `g_opts.proportion` to the end of `g_opts.port` are modelled
one by one, since `((int*)param)[0] = value` (779) writes four of them and
`((char*)param)[0] = ix` (762) one. `ix` is the walk's index and the word search's.
Strings are opaque, and a string whose first byte was overwritten is `"clobbered"`.
An item is absent, a string, a number, a boolean or of another type; one that is not of the type the
table asks for is skipped, as in 755-757. No row asks for a boolean.

### Connection

Bytes are tokens: a request is a `line` and an `end`, then its body; a pull or a read
returns any number of them that has arrived. `conn` is the part of `struct
mg_connection` that matters, allocated once (4875) and not reset between connections but for
`data_len`. `Moved` is the `memmove` of 4830 token by token, for a negative length too. The
strings of the request info are places in the buffer: `Intact` says that nothing has been
moved over them. `PullNothing` is `recv` returning 0 or timing out. The process is `dead` after
a second `free`, or a failed assertion (4833; the makefile keeps assertions).

### FileServer

An action is one call into the file system or what lies between two: `Begin` (the stat in
`convert_uri_to_file_name`), `Route` (the conditions of `handle_request`), `TryIndex`, `FileOpen`,
`FileSend`, `SsiNext`, `AboveStat`, `Mkdir`, `PutOpen`, `PutBody`, `Spill` and `PutClose` (stdio's
buffer), `Delete`. Data are sequences of buffers, an inode has a time in seconds.
`changed`, `seen`, `ver` and `copies` are what the properties compare with: the history of
each path, what was there at the handler's stat, what clients keep.

The system may refuse any call, for whatever reason (permission, space, descriptors). `Refuse` is an `opendir`, `fopen`,
`mkdir` or `remove` that becomes a 500, `SsiRefuse` an included file that is passed over, `SpillFail` a write of stdio's buffer
that fails, `CloseFail` the `fclose` of 3375 that fails after the 2xx was sent. A handler that met one of these has `fault` set.
The part of a body that came with the head (`early`) is pushed with the result ignored (2976), so a refused write there
does not end the request; the rest is pulled and pushed with the result looked at (2980-2990).

### Cgi

`held` are the ends of pipes the server has open, `child[p].ends` those of a process. `Fork`
copies the former to the latter. `Holds(end)` is whether anybody still has an end, which is
what the end of a pipe depends on. A script is a sequence of reads and writes of a program. `Fdopen` is where
`forward_body_data` refuses a body of unknown length (411) or an expectation other than `100-continue` (417). `Push` puts the
part that came with the head into the program's input and does not ask how that ended (2976), then what `Pull` got from the
client, where a reader that has gone, or a client that sends nothing more, is a 577.

### Forms and the operators

`Scans`, `Text`, `Uri`, `Buffers`, `Json` and `Directives` translate each function into an operator, over
texts as sequences of characters that stand for classes (a hexadecimal digit, a slash, ...).
Where the answer is not the obvious one, a second operator says what it ought to be
(`QuotedWord`, `Matches`, `VarOf`, `Contained`, `EpochDays`, `Sextets`). `Forms` makes one call
with any of the inputs, and its invariants compare. The loops in `Scans` are functions from a place of
the text to what is there after it (`Kept`, `Environments`, `SsiTurns`), so that they can be proved about for
every text; in the other modules of operators loops are recursive operators. `JsonList` runs beside it: `heap` are
the C pointers, `kids` the lists that callers mean. A walk along `next` is the sequence of items that are
linked so (`Chain`); what the recursion of `cJSON_Delete` comes to is the least set that holds the item and
leads nowhere else (`Doomed`). Neither is a recursive definition, so that theorems can be proved about them.

## 3. The runs

Runs that must pass:

| Run | Question | Properties | Bounds |
|---|---|---|---|
| `ShowServe` | Two workers, chains of up to five directives over a library of whole files in several formats; any write is refused or stopped, any open behind it refused | `StackBound` `FoundServed` `CleanCache` `Answered` | three requests; no derivative is another's source |
| `ShowOverlap` | Two workers on `a_r.png` and `a_r_q.png`, both perhaps stored, damaged or directories; writes and opens are refused, the operator replaces files, the process is killed | `CacheFaithful` `ServedFaithful` `StuckExplained` `OriginalsKept` `IsCache` | three requests, one replacement of each file, one kill |
| `PoolQueue` | A master, two workers, a ring of two slots, `mg_stop` at any moment, a spurious wake-up | `NoneStranded` `MasterNotStranded` `FreedLast` `IsQueue` `Served` `StopExplained` | six connections: both indices wrap, twice |
| `NotFoundLoad` | Two workers race through the load of the 404 image while the operator rewrites it; one open may fail | `InBounds` `Settled` `LostBuffers` `Framed` `Answered` | an image of no, one or two reads, two rewrites, four requests |
| `ConfigRead` | Every combination of present, absent and mistyped options, booleans among them | `PortKept` `OptionsKept` `Ends` | values that fit one byte, two, and neither (256 for a flag) |
| `ConnServe` | A worker and two connections: pipelined, malformed and endless requests, bodies that are read and that are not, silence, departure and shutdown at any moment | `InOrder` `BodyExact` `IdleIsFatal` `DeathExplained` `Released` | a buffer of four tokens, two requests on a connection |
| `FileServe` | Two workers over a tree with a file, a directory with a missing index, a file that includes itself, and missing paths; every method, bodies with the head and behind it; any call is refused | `BodyExplained` `NotModifiedHonest` `PutExplained` `EndsClean` | three requests, the third a conditional one; two clock values; one level of inclusion |
| `CgiServe` | Two workers and four programs; bodies with the head and behind it; any call fails; pids come back | `NoneLeft` `OutputWhole` `HangsExplained` | two requests, pipes of one buffer, two pids |
| `Forms` | Every function on every short input; seven list operations | `TextMeaning` `BuffersMeaning` `JsonMeaning` `DirectivesMeaning` `ListsLinked` | texts of up to six characters, buffers of up to eight, four items |

The bounds are where the interesting cases begin: a name whose chain is longer
than a row of fallbacks, with fallback files that keep the search alive; two handlers
that fill one file; a derivative used as a source while it is written; a ring
smaller than the number of connections; two loads of the 404 image with a rewrite between
any two of their steps, so that each may find the other's `len` or buffer. The two workers of `ShowOverlap` are interchangeable
(symmetry); its properties are safety properties, for which that is sound. The theorems of section 5 hold without them.

In `ConnServe` a head fills half the buffer and an endless one all of it, so that
every length falls on, before and behind a boundary; what a struct remembers takes two
connections to be seen. In `FileServe` two requests overlap and a third validates what
the first got. A pipe of one buffer is full and empty as soon as any. In `Forms` a buffer
is smaller than what it is given. The two workers of `FileServe` are interchangeable, too.

One passing run states hypotheses in its instance rather than in the property.
In `ShowServe` sources are whole, descriptors last, the disk option is on, and no derivative is another's
source. Without the first or the last `CleanCache` fails, as `ShowPartial` shows; a source that does not decode, or the option
off, makes a request hang, and `StuckExplained`, which has no hypotheses and is checked where sources are
damaged, says exactly how an answer can be missing. Writes and opens that are refused are in both runs, and in the text
of the properties. `InBounds`, `Settled`, `Framed`, `PutExplained` and `Ends` say in
their text which case is left out.

Runs that show a disagreement between the code and what is written about it:

| Run | Property | What happens |
|---|---|---|
| `ShowPartial` | `ServedWhole` | A request is sent the part of a file that another worker has written so far, with the Content-Length of that part |
| `PoolStop` | `StopReturns` | `mg_stop` waits forever: a worker fell asleep after the broadcast, or the last workers left before the master fell asleep on `sq_empty` |
| `ConnAssert` | `BufferFits` | A fresh worker is given a connection that closes, or is silent, without a request. `request_len` is -1 and `content_len` 0, so -1 bytes are discarded and `data_len` grows; `http_version` is NULL, which counts as keep-alive; after as many passes as the buffer has bytes `assert(conn->data_len <= conn->buf_size)` fails |

`StopExplained`, `StuckExplained` and `DeathExplained` are the other side of them: the
ways in which the program hangs or dies are these and no other.

### Properties in words

* `CacheFaithful`, `ServedFaithful`: whatever overlaps, an image under a name was
  made by that name's directives from that name's base, and so is every body sent.
  Violating it takes a wrong order on the stack, or writing under the name the
  search stopped at.
* `OriginalsKept`: the check at 536 is still good at 680. That holds only because a
  stored name is never absent again, which is why it fails once descriptors run out.
* `CleanCache`: over whole sources a file in the directory is whole and of one picture, whoever fills it at once,
  unless the last write of it was stopped; the next request finds such a file and sends it.
* `Answered`, `StuckExplained`: a handler that is granted its write and the open behind it answers. One
  that is refused either reads from a descriptor it has not got, for ever (690): a full disk or a
  missing permission costs a worker per request. Otherwise a worker is lost only with the disk option off, to a source
  that did not decode, or to a directory; never by what other handlers, the operator or a kill do.
* `IsCache`: nothing appears under a name but its own picture, only while a client waits for it
  and beside a picture it can be made from; nothing is ever taken away; a client is shown its
  picture, once, and a stored name is never refused.
* `StackBound`: nothing compares `pCommand` with the end of `commandList`
  (16 entries). The search gives up after three cuts unless a fallback file was found,
  and each one found buys three more. A library with files for the prefixes of a long
  chain can exceed sixteen, and the property allows it: it says what the bound is made of, not that it is kept.
* `NoneStranded`: if workers sleep there are as many awake on their way to the ring as
  connections in it. `MasterNotStranded`: the master sleeps only on a full ring.
* `InBounds`: no read of the load lands behind the end of a malloc, and no body is taken from there, though each
  worker reads up to the end of the file, into a buffer that another worker may have allocated, with a
  length that yet another may have set. It fails as soon as the image is rewritten under a load, and then only.
* `Settled`: after any race the buffer in use holds the whole image, unless it was rewritten under a load. It holds because
  each worker that allocates then takes the pointer, and the last to allocate can
  only take the last buffer.
* `InOrder`, `BodyExact`: `request_len`, `content_len` and `consumed_content` always cut the
  stream between two requests, so that each is answered after the one before it, once; a head
  that is malformed ends that. A handler that reads gets its request's body from the first byte on.
* `IdleIsFatal`, `Released`: once a read has failed with a stale `content_len` of 0 the
  connection never serves again; and a worker whose client has left comes back, except to
  a pass that changes nothing: a kept `content_len` above 0 and an intact request
  info that asks to keep the connection.
* `BodyExplained`: never more than announced, and exactly the file, or the part asked for,
  if nobody changes it after the stat. A range beyond the end announces one byte more
  than there is (test.pl:179-180 sends one).
* `NotModifiedHonest`: a 304 is wrong only if the file was changed again in the second
  it was read in. It speaks of a copy of the path that is served: a directory may have taken the place
  of the file the client has, and then its index is compared with that copy. `PutExplained`: a PUT that
  is answered 2xx and had its file to itself has stored its body, all of it unless the system refused a write or the close
  that follows the answer, and then its first bytes; what was before the range of a partial one is gone
  (`wb+`, 3360); one with a range and no body stores nothing, since a file grows only where it is
  written. A 500 met a directory where the file goes, a file where a directory goes, another request on its way, or a
  refused call. So a 2xx is no promise: a full disk that is first noticed in `fclose`, or in the push of the part that came with the head, loses
  a body that was reported stored. `EndsClean`: which answers lack a length on a
  connection that stays open.
* `NoneLeft`: on each of the ways out of `handle_cgi_request` every descriptor is closed once and the child
  is gone. `OutputWhole`: an answer is the program's head and then all it wrote, in order; the one way to lose
  output is a kill of somebody else's program.
  `HangsExplained`: there are two ways to hang, a program that holds the writing end of its
  own input, and both pipes full.
* `TextMeaning`, `BuffersMeaning`, `JsonMeaning`, `DirectivesMeaning`: what each function
  computes, with its exceptions written into the property: a date in January or
  February of a leap year is a day late; a cookie is found by the end of a longer name, and its value loses one
  pair of quotation marks, the pair `""` included but not a mark alone; an
  overdrawn throttle sends nothing; a message as long as the buffer loses its last
  character; of several uploads in one body all go into the first one's file;
  `check_for_change` unlinks the name it is given whenever it unlinks anything. What the JSON parser returns ends in
  the text with its lists closed; it leaves the text only behind a blank one, or one that breaks off in a list, an escape or a
  fraction, since `skip` takes the terminating NUL for white space (cJSON.c:233). The first number of a resize is columns,
  against the README's `r[HEIGHT(xWIDTH)]` (35).
* `ListsLinked`: the pointers of every list agree with each other and with what callers did,
  and memory is in use exactly if it can be reached.
* `PortKept`, `OptionsKept`: what reaches the running server, option by
  option, and which other option spoils it. Of `disk` it says what the code does, and that is not what the README
  promises (125): a number's low byte arrives (256 turns the disk off), anything else, the documented boolean too, leaves
  the default of 1, so that `"disk": false` goes on writing.

## 4. Fairness

`FairSpec` of `ShowImage` and `NotFound` has weak fairness of each worker's own
steps: the threads are scheduled, and no step of a handler waits for
another. Requests, the operator and kills are not fair: they need not happen.
In `WorkerPool` the master, the workers and the thread in `mg_stop` are weakly
fair; `Accept`, `Stop` and `Spurious` are not. Weak fairness is enough for the mutex
because a thread that falls asleep holds it for one step only. That a handler
returns (`Serve`) is an assumption there; `ShowImage` says when it is wrong. `Config`
has one thread. `Connection` is fair to its worker, not to clients: a client may be silent,
and then `recv` times out (request_timeout_ms), which is `PullNothing`. `Cgi` is weakly fair to
each handler and each program; one that waits for a pipe is not enabled, so that a hang is
not excluded. `FileServer` and `Forms` have safety properties only.

## 5. Proofs

`tlapm` checks every obligation of the eight proof modules. The constants are
arbitrary, under the named assumptions of the modules: a finite set of workers, a
positive ring size, requests with at least one segment and a known
extension, sources among the names that can be opened; in `Config`, any
set of files whose items have one of five types and a number of 31 bits; in `Connection`,
a buffer of at least two tokens and any shapes of requests; in `FileServer` a number of SSI levels,
finitely many paths that form a tree (the directories above a path are each in the one before), and
requests with the numbers `strtoll` and `sscanf` can give, where a second bound that was not read
stays 0; in `Cgi` that 0 is nobody's pid; and in `JsonList`
a finite memory of numbered items, none of them 0, with room for the first.

**ShowImageProofs.** `Typing` needs the indices where they index: `n` within the
name, `off` within the row, a descriptor in `opened` and `send`. `CacheIsFaithful` rests on
an invariant about a request in progress: the segments left of the name, followed
by the stack read from the top, are the requested name. While the search goes on,
the name found is its first `n` segments; while directives are applied, the wand's
history is what is not on the stack any more; when it is written the stack is empty,
so it is the whole name. `ServedIsFaithful` follows from it. `StackIsBounded` needs
what the table forces: after a row was run through without a hit the next extension is the
row's last, after `gif` and `bmp` it is `jpeg`, then `tiff`, which has no row.

Three of the five theorems about the files in the image directory, `OriginalsAreKept`, `StoredIsFound` and
`ServerIsCache`, are proved for a process that does not run out of
descriptors (`~Limited`): every conversion leaves one open, and without any a stored
file gets a 404. None of the five supposes that a write, or the open behind it, is granted.
`OriginalsAreKept`: a handler past its first `open` was told that its name is absent,
a stored name never is, so the name it writes is not stored (`Missed`).
`StoredIsFound` adds what the search of a name with one directive has tried so far
(`Tried`). `HangsAreExplained` has no hypothesis. It adds what a handler knows of the file it is going to
reopen: if its write was granted the file is there, and if not the handler is in `failed` (`Written`).
`CacheIsClean` has two hypotheses, and both are needed. Files that are not stored whole, or are
replaced under a worker, stay damaged (`Quiet`: neither happens; writes may stop and the process be killed, and the
names this happened to are the exception in the property); and a
worker that starts from a derivative another one is still filling bakes the damage into its own
(`Flat`: no name that can be asked for is a source of another). They hold of `ShowServe`'s
constants; `ShowOverlap` is without them. Then a worker that fills a file, alone or
with others, writes the picture of its name from a whole file, so that the last to finish leaves it whole,
or the name is in `spoilt`.
`ServerIsCache` is the refinement, step by step. It needs, beside `CacheFaithful`, that a name the
search has opened is a shorter name of the same picture that is still there (`DerivedInv`), which is
what `Bake` asks for, and that the 404s go to names that are not stored (`Missed`).

**WorkerPoolProofs.** `RingInRange`: the tail is at most the ring's size and the head at
most that much further, so one step back per wrap is enough. `FreedIsLast` rests on
`num_threads` being the number of workers not done. `MasterIsWoken` is inductive
by itself. `NobodyStranded` counts: connections in the ring are no more than the workers
that are awake and coming to it, or no worker sleeps (`Coming`). A connection that is
produced wakes one worker or finds none asleep, and one that is consumed takes a worker
along. A worker on its way to sleep holds the mutex, so the ring it found empty is still
empty when it sleeps (`Dozing`). `PoolIsQueue` is a refinement step by step: taking a connection is
`Dequeue` whether the indices wrap or not, because both move back by the ring's size
and the ring is read modulo it.

**NotFoundProofs.** All but `RaceCosts` speak of an image that nobody rewrites under a load (`~moved`); it may be
rewritten at any other time. While a load is under way, then, the file keeps its size: whoever is past its `fstat` has set `len` to it, so that the
mallocs that can still be read into are of that size whoever set `len` last (`Sized`), and the parts written to one lie
inside it (`Inside`), because the file has no more. From this `LoadInBounds` follows; the
steps of the model do not look at `room`. `RaceSettles`: the current buffer is whole or some worker is filling
it from its start (`Progress`), having written every part it has passed (`Prefix`). A worker that takes the pointer
finds one, and without an image `len` stays 0 (`Found`).
`RaceCosts`: the buffers and the workers that may still allocate are together no more
than the workers (`Counted`), rewritten or not. `BodyIsFramed`: `len` is set before `buffer` and never
unset, and whoever answers without a buffer knows that there is no image (`Known`).

**ConfigProofs.** The invariant says what `mem` and `img_root` hold when the
walk has come to `ix`, unless the word is one of the two that make it walk for
ever, and that in that case it never leaves the first three rows.

**ConnectionProofs.** `RequestLenBounds` says what the proof needs of `get_request_len`: it is
-1 or at most the length it was given, and it is not positive when the buffer begins with a
NUL. `DeathIsExplained`: a freed `remote_user` is forgotten by the next head that is
parsed, so that only a failed read finds it (`Freed`); and -1 bytes are discarded only for
`content_len` 0 and `request_len` -1. `IdleKills` needs to know the buffer of a
connection whose read has failed with `content_len` 0: it begins with the NUL that the
memmove of 4830 brought, or is full without a head in it (`Stuck`), and neither
changes, since a pull writes behind the first byte and a full buffer is not pulled to
(`Fatal`, `Kept`). That the lengths index the buffer (`Lengths`) rests on tokens
naming requests that were sent (`Sourced`), whose `content_len` is a number.

`AnsweredInOrder` and `BodiesAreExact` compare the buffer with all that was sent, one sequence in
which request r begins behind `st[r]` (`Stream`). At every moment the buffer is that sequence from some
place p, and what is on its way the sequence from some m (`Window`): equal to p and `data_len`, except
while a body is read past the buffer. If a is the last request that was answered, a
worker that looks for a head has p in a's body or behind it (`Between`): it may be in it, since
a handler need not read, and then what is left of the body is thrown away or taken for a bad head. A head that
begins the buffer there can only be the next request's (`HeadIsNext`). Three things could break this and the
proof says why they do not. A failed read computes what it discards from a stale `content_len`: if that
is 0 the connection is lost for good (`Failing`, above), and otherwise the request info must be
intact for the loop to go on, which leaves at most one byte in the buffer (`FailedKeeps`), and
that byte begins no head unless the server stops (`Alone`). The NUL put over the end of a head
is inside the part that is discarded. And a head that was malformed leaves the order to chance, which is
why `InOrder` excepts it. `Told` is what the struct remembers for all this.

**FileServerProofs.** Each worker's locals satisfy `Orderly`, which names what is open and
answered at each place. An inclusion is opened only from a file for SSI, and such a file is at
most `IncludeLevels` + 1 deep, so that the one beyond is not for SSI and includes
nothing (`Nested`).

`BodiesExplained`, `NotModifiedIsHonest` and `PutsExplained` compare an answer with a tree that others
change while it is made, and all follow from one invariant, `KnowInv` (`Knowledge`). Of the tree
it says that no two paths share an inode, that the moments a path was changed at are in order, and that
a file's time is the last of them (`TreeInv`). Whatever a step writes, makes or removes,
each path is then either as it was or changed now (`Evolves`: `Kept` or `Moved`), and that is all a handler needs
to know of the others. So what it saw at its stat is still there if the path was
not changed since (`LookInv`); what it has sent is a prefix of the part it is to send of the file it opened, if that is
the file it saw (`SendInv`); and a copy holds what its path held at the
version it was taken at (`CopyInv`). A tag of seconds cannot tell versions of one second
apart, which is the exception in `NotModifiedHonest`. For a PUT, the directories of its way that
are behind it are there, or another request changed one (`WayInv`); its file holds what was
written so far, stdio the rest, until a write or a close is refused: from then on (`fault`) it holds a
beginning of the body (`FillInv`); and two PUTs with one inode are both marked (`RivalInv`), since
whoever opens it last marks them all. `HandlerStays` shows that what a handler knows outlives the
steps of others; then one lemma for each group of actions shows what its own steps add.

**CgiProofs.** `NothingLeft` rests on whose things are whose: a worker's open ends are those the
server holds of its own request's pipes (`Opened`), requests have numbers of their own
(`Numbered`), and the process a request started is the one whose pid its handler
keeps, until it is killed (`Parented`). `OutputIsWhole` follows the bytes: what the handler has
passed on, what is in the pipe and what the program has still to write are together what its script
writes (`Stream`), unless somebody else killed it. What a script writes is a recursive function; the
one fact needed of it, that a step of the program moves one buffer, is proved by the least
counterexample, as the library's induction theorems cannot be used here.

**FormsProofs.** `ListsAreLinked` has one inductive invariant, `Shape`, of the heap, what the caller holds and the
lists it means: every list is linked both ways (`IsList`), no item is in two lists or twice in one, what the
caller holds is in none and has no neighbours (`Forest`), and memory is used exactly where it can be reached from
there. The first part of the proof is about trees alone: a tree joined to another, parted from it, felled, planted
(`Joined`, `Parted`, `Felled`, `Planted`). The second is about one list: after `Added`, `Detached` and `Swapped` it
reads as `Append`, `RemoveAt` and `ReplaceAt` say, and no field changes but those of its own items (`Same`), so that the
other lists stay. The third is cJSON_Delete: because the item it is given is out of its list, the walk along `next` and
`child` frees exactly what is below it (`DoomedIs`). That is why the order of the code matters: cJSON_ReplaceItemInArray
cuts the old item's `next` before it deletes it. A reference is an item of its own that is added: its `child` may point to
freed memory, but cJSON_Delete does not follow it, and the caller is taken to operate on no reference's list. A delete frees
nothing above the item, since the caller adds no item below itself (`NoCycle`).

The rest of the module is about `Scans`, for every text, list and size. A recursive function has to be shown to
exist before anything follows from its definition: `Recursion` does it for any recursion whose next place is smaller
in some measure, by the least counterexample (`Descent`), and `Counting` for one that counts from 0. Each loop
then has a lemma that its definition is its recursion (`BehindIs`, `KeptIs`, `EnvironmentsAre`, `SsiTurnsAre`), one that a
turn keeps what the loop is about, and a theorem for all its turns:

* `CleanedPathsStay`: what remove_double_dots_and_double_slashes leaves is no longer than its input (it is written over
  it) and has no slash that another or two dots follow; so cleaning twice is cleaning once. Each text that stays
  still does with a character in front (`ContainedMore`).
* `EnvironmentFits`: the space left never falls below what the two terminators need (`EnvFits`), whatever the variables
  and the sizes, from 2 on; so the assertions of prepare_cgi_environment hold and nothing it keeps was cut.
* `SsiIsExact`: what was sent and obeyed, followed by what is in the buffer, is what was read (`SsiFits`), until a
  tag is given up; then the characters read last are a tag that fills the buffer. The mark has two
  characters in the model and five in the code; the buffer holds the mark, a character of the tag and a NUL, from 4 on
  (8192 bytes in the code).

The run `Forms` compares the same operators on short texts in `TextMeaning` and `BuffersMeaning`.

The theorems of the type invariants of the handler, the pool, the 404 answer, the walk and the
connection are what the others rest on; no run checks these five.

Only model-checked: the liveness properties (`Answered`, `Served`, `StopExplained`,
`Ends`, `Released`, `HangsExplained`), which need fairness; and the properties of `Forms`
other than `ListsLinked`: `TextMeaning` and `BuffersMeaning` but for the parts that the theorems on `Scans` state, and
`JsonMeaning` and `DirectivesMeaning`. The operators behind these are recursive, which the provers cannot reason about.

## 6. What is abstracted, and what is not modelled

* Pixels and formats of pictures: a directive appends itself to a history; `Directives` has the
  numbers it passes on. An unknown directive is skipped with a log line, but would stand in
  the history.
* Strings, paths, logging, and headers that no property is about. Names shorter than
  `PATH_MAX` are assumed.
* `ShowImage`: an `open` of the search that fails for another reason than a missing file or missing descriptors
  (what can be read stays readable); read errors of a file that is open, and clients that leave.
* `NotFound`: two images of one size, whose parts a load mixes; read errors.
* Negative and wider-than-int numbers of the configuration.
* `Connection`: a partial write; SSL; what handlers do besides reading the body. A head that is
  malformed in the middle of the buffer is one token.
* `FileServer`: a `stat` that fails for a file that is there; a write to the client that fails; authorization is an input (`user`), as are the port that redirects and the slash at
  the end of the URI; the text of lists; digests; `#exec`; files in memory; the callbacks
  `open_file` and `begin_request`. Which of two renders of one second is newer is not known to the
  code either.
* `Cgi`: the status line and headers of the program, a client that leaves.
* `Json`: `\u` escapes, the printing of fractions and of large numbers, failing allocations.
  Recursion in these modules keeps them out of reach of the proofs.
* Descriptors: `ShowImage` counts them; the limit is the constant `FdLimit`, and no run sets it
  (`Limited` is FALSE), since every property of served images then fails.
* Not modelled: SSL, Lua, websockets (libraries, and code that is compiled out); password
  files and MD5 (string handling over a file); the parsing of port lists and throttle rules;
  `mg_start`'s set-up of sockets and threads; `mg_connect`, `mg_download` (client code);
  mongoose's program, examples and tests; SQLite. Their state is local to one call, or not the
  repository's.

Seen while modelling, and not given a run of their own:

* The README's chain over `myfile.bmp` ends in a 404: fallbacks are tried after every cut and the
  last one, tiff, stays the extension, which has no row in the table (595, README:66).
* A derivative is served unchanged after its source was replaced, against the comment at 538
  and README:96: the counter of the check is never read and `check_for_change` never called.
* Each conversion leaves a descriptor open (396, 684), until `open` fails and stored files get a 404.
* A 404 sent while its image is being loaded has a body that is not the image yet (282,
  README:122-123). `Framed` and `Settled` say what does hold.
* The README documents `"disk": BOOLEAN` (125), the option table asks for a number (109): a boolean is passed over
  and `"disk": false` starts a server that writes to disk. In `OptionsKept`.
* The README documents `r[HEIGHT(xWIDTH)]` (35), but `image_resize` passes its first number as columns (472):
  `r40x30` makes an image 40 wide and 30 high. In `DirectivesMeaning`.
* `skip` is a "utility to jump whitespace and cr/lf" (cJSON.c:232) and jumps the terminating NUL as well: behind `[1`, or a
  blank text, the parser goes on past the end of its text. In `JsonMeaning`.
* Without a 404 image the answer has no Content-Length, on a connection that may stay open (300).
* `"squash"` and `"crop"` make the walk start again for ever, and a number for `true_bmp`
  overwrites half of the port (760, 779, README:105-110). `Ends` and `PortKept` except them by name.
* `mg_upload` returns two for two files in one body and calls back twice, but the head and data of
  the second are written behind the first (4139-4143; mongoose.h:258-260 speaks of "each uploaded
  file"). In `BuffersMeaning`.
* A date in January or February of a leap year is read a day late (1845). In `TextMeaning`.
* `put_file` truncates the file before a partial PUT (3360). In `PutExplained`.
* A CGI program that is started while another one runs inherits the writing end of that one's
  input, and its own, against the comment at 3232, "Close so child gets an EOF". In `HangsExplained`.
* A name without directives is not sought in other formats (613; README "FORMAT"); the order
  of the jpg row differs from the README's (148); a worker that starts from a derivative still
  being written hangs (653, part of `StuckExplained`); the same name is converted by every
  worker that asks before the file is there (README "at most a one-time overhead"); with `disk`
  off no converted image is sent (679-690, part of `StuckExplained`); `seamcarve` writes `true_bmp`
  and leaves the mode, and a string for `no_support` becomes the root (both in
  `OptionsKept`); the log file is opened and never written; on shutdown connections still in the
  ring, or just taken, are not closed; a configuration that is not JSON ends in a crash (in
  `Config`).

## 7. Plan

Done: the request handler, the 404 answer, the start, the thread pool, the connection loop,
the file and CGI handlers, the pure functions, their runs and the theorems of section 5.
Next, most important first:

1. `Server`: `WorkerPool` whose `Serve` is a `Connection` that may hang, so that lost
   workers fill the ring and the master stops accepting.
2. Port lists, throttle rules and password files as operators of `Forms`.

## 8. Running it

    tlc -config PoolQueue.cfg MCWorkerPool
    tlapm WorkerPoolProofs.tla

Each configuration is run with the `MC` module PROJECT.json names for it.
Deadlock is not checked: every run ends when its bounded number of requests,
connections or steps is used up.
