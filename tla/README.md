# Liso in TLA+

Two models of the Liso web server. `Liso` is the `select` loop of `lisod.c`: its
pool of connections, the connection handlers, the request parser and the pipes
to CGI programs, with what the kernel, the clients and the programs may do
between any two handlers; it implements `HttpService`, what a client is
promised. `Lifecycle` is the life of server processes around that loop: startup,
the lock file, signals, teardown, forked children and the log they all write to.
TLC checks both on small instances; TLAPS proves theorems about the pool, its
descriptors, the stream of requests, the files sent and the input of programs
for any number of clients, any requests and any limits, and about the lock file
and the log for any number of servers and children.

Contents: 1 inventory of the system; 2 modules; 3 how model and code
correspond; 4 properties; 5 runs and bounds; 6 disagreements; 7 fairness;
8 proofs; 9 what is not modelled; 10 plan.

## 1. The system

Liso is one process with one thread. It waits in `select` for its two
listeners, its clients' sockets and the output of the CGI programs it started,
then accepts at most one client per listener and visits each connection of the
pool once. One visit goes through receiving, parsing, preparing a response or
starting a program, feeding the program, reading its output, and sending, each
guarded by phases kept in the connection and by what `select` reported.

| component | state | operations | correct when |
| --- | --- | --- | --- |
| main loop (`lisod.c`) | `sock`, `ssl_sock`, `i`, the local `max_fd` | one pass: select, accept, visits; `liso_accept_conn`, `liso_drop_conn`, `liso_conn_err`, `liso_reset_or_close` | no connection of a pass is skipped or visited twice; every pass ends; every request is answered |
| pool (`pool.c`) | `conns`, `n_conns`, `read_set`, `write_set`, the ready sets, `max_fd` | `pl_new`, `pl_ready`, `pl_add_conn`, `pl_del_conn`, `pl_reset_conn` | indices agree with the array; the sets name open descriptors only; `max_fd` covers them |
| connection (`conn.c`) | `fd`, `idx`, `req`, `resp`, `cgi`, `buf`, `ssl` | `cn_recv`, `cn_parse_req`, `cn_prepare_static_header`, `cn_serve_static`, `cn_init_cgi`, `cn_stream_to_cgi`, `cn_stream_from_cgi`, `cn_serve_dynamic` | the bytes sent are the responses to the requests, in order |
| request parser (`request.c`) | `req_t`, `last_buf` | `req_parse` on the lines received so far | the cuts of the stream do not matter; what exceeds a request is the next one |
| response (`response.c`) | `resp_t`, mapped file | `resp_build`, `resp_hdr`, `resp_msg` | the header says what follows |
| CGI (`cgi.c`) | six pipe ends, phase, `buf_phase`, the child | `cgi_init`, `cgi_reset`, `cgi_logerr`, `close_pipe` | the program reads one body and its end; no descriptor is lost or mistaken |
| https (`conn.c`) | `SSL`, `ssl_accepted` | `SSL_accept`, `SSL_read`, `SSL_write` | as for http |
| buffer, headers, utilities | data | | |
| logging (`logging.c`) | file, offset, `lockf` lock | `log_init`, `log_line`, `log_errln`, `log_raw`, `log_stop` | what a call writes stays whole; every call returns |
| lifecycle (`daemon.c`, start and `teardown` in `lisod.c`, the child in `cgi.c`) | listeners, lock file, pending signals, children | `open_listener_socket`, `daemonize`, `new_ssl_ctx`, `signal_handler`, `teardown`, `fork` to `exit` | one server per lock file, which names it; children are reaped; SIGTERM ends the server |

How they interact: main calls the handlers of `conn.c` and passes them
callbacks (`SuccCb`, `ErrCb`, `FatCb`) that change the pool: `liso_conn_err`
announces an error page, `liso_reset_or_close` ends a response and parses the
request behind it, `liso_drop_conn` deletes the connection main is visiting,
which makes main visit the same place again. The select sets are written by
main, by the pool and by the callbacks; the descriptors in them by `cgi.c`.
Outside the loop, signal handlers run between any two instructions of main;
children share the log's offset and the listeners with their server, and none
of its locks; two servers meet in the lock file, the log and the ports.

What is hard: the kernel, clients and programs move between any two system
calls; sends, receives and writes are partial; one buffer serves receiving,
streaming and sending in turn; a callback changes what its caller goes on to
use; descriptors are reused while the ready sets of the pass still hold their
numbers; blocking `write` stops everyone. `PROJECT.json` lists each hazard at
its line.

## 2. Modules

| module | what it is |
| --- | --- |
| `Conn` | the sequential part of a connection: `req_parse`, `cn_parse_req` and the structures, as operators on values |
| `Liso` | the state machine: the loop, the pool, the handlers, the kernel, clients and programs; extends `Conn` |
| `LisoProperties` | what well-defined clients send and must get (`Requests`, `Encode`, `Reply`), the type invariant, the properties, the fairness |
| `HttpService` | the abstract service: a call is accepted, heard, answered and hung up on; `LisoProperties` instantiates it (`Http`) |
| `PoolRounds` | the abstract loop: between two calls of `select` every member of the pool has one turn; `LisoProperties` instantiates it (`Rounds`) |
| `LisoProofs` | the invariant of the pool and its descriptors, and the theorems about them |
| `ConnProofs` | lemmas on the operators of `Conn`, and that parsing in parts is parsing at once |
| `RequestProofs` | the invariant of what each connection holds and is selected for, kept by every handler |
| `StreamProofs` | the invariants of the wire and of what is sent, and the theorems about requests, buffers and selection |
| `ReplyProofs` | the invariants of the responses, of the ready sets and of the programs' input, and the theorems about files, hang-ups and what a program is fed |
| `PoolProofs` | that `Liso` implements `PoolRounds` |
| `Logging` | the log file, its offsets and record locks, and the steps of a log call; extended by `Lifecycle` |
| `Lifecycle` | the state machine of servers and children from start to end |
| `LifecycleProperties` | its properties and its fairness |
| `LifecycleProofs`, `LoggingProofs` | the theorems about the lock file, the log and the children |
| `MCStatic`, `MCSlow`, `MCCgi`, `MCPool`, `MCTwoCgi`, `MCShort` | one scenario each: who sends what, cut where |
| `MCFindings` | the smallest scenarios of the disagreements in section 6 |
| `MCLife` | the instances of `Lifecycle` |

No module declares a `RECURSIVE` operator; the line parser is a recursive
function (`ParserStates`: its state after each number of units).
`Lifecycle` composes with `Liso` by a label: `loop` is where all of `Liso`
happens. What the two share, the children, is seen by each from its side:
`Liso` has their pipes, `Lifecycle` their exit, their locks and their signals.

`Conn`, `Liso`, `Logging` and `Lifecycle` contain, before some definitions, a second
form of them introduced by a comment `Bug:`. They are used by no behaviour of
the model: each is a plausible mistake in the code, and with it in the place of
the definition that follows, the property named in `PROJECT.json` (`mutants`)
fails.

## 3. Model and code

**The wire.** Bytes are abstracted to units. A header line is a text unit
(`LineText`) and an end-of-line unit (`LF`), so that the network can cut a line
before its end; a body is a sequence of numbered units; a TLS connection starts
with `Hello` units and each of its records ends with `Mac`. What the server
sends is also units: `HDRSZ` parts of a header, which carry status, length and
keep-alive, then a page, the units of a file, or those of a program. Each unit
names where it belongs, so a lost, repeated or misplaced unit shows in `out`.

**Pieces of state.** `req`, `resp`, `cgi`, `buf`, `last_buf`, `fd`, `idx`, `ssl`
and `pipe` are the fields of `conn_t` by client (a client connects at most once,
so a connection can be named by its client; a free one has `fd = NoFd` and
`idx = 0`). `buf` is `[p, rest]`: the units before `data_p` and those after, so
that the room left (`BUFSZ - sz`) is what the code computes. Indices count from
1. `conns`, `max_fd`, `read_set`, `write_set`, `read_ready`, `write_ready` are
`pool_t`. `pc` is the next handler of the loop, `cur` is `i`, `top` the local
`max_fd`, `wr` the progress of the loop in `cn_stream_to_cgi`.

**The kernel.** `fdt` maps each descriptor number to the object behind it and
the client it was opened for: free, listener, socket, one of the six pipe ends,
or `leak` for one opened and stored nowhere. New descriptors take the lowest
free numbers, as POSIX has it, so reuse happens exactly as it does in the
program. Number 0 stands for all descriptors open from the start. `inq`, `out`
and `taken` are a connection's queues, with room for `SNDBUF` units the client
did not read; `backlog` is the clients that wait in the listeners. Select
reports a listener with a client waiting, a socket with data or an end of file,
a pipe with data or a hang-up, a socket with room.

**Actions.** One per handler and outcome, in the order of the loop's body:

| label of `pc` | actions | code |
| --- | --- | --- |
| `select` | `Select` | lisod.c 366-377, `pl_ready` |
| `accept`, `accept_ssl` | `AcceptSkip`, `AcceptRefuse`, `AcceptConn` | `liso_accept_conn` |
| `recv` | `RecvSkip`, `Handshake`, `HandshakeFail`, `RecvIgnore`, `RecvData`; `LoopEnd` after the last connection | `cn_recv`, `recv_ignore`, `cn_parse_req` |
| `logerr` | `LogErr` | `cgi_logerr` |
| `prepare` | `Prepare` | `cn_prepare_static_header`, `resp_build` |
| `init_cgi` | `InitCgiSkip`, `InitCgiNoPipe`, `InitCgiFail`, `InitCgi` | `cn_init_cgi`, `cgi_init` |
| `for_select` | `ForSelect` | lisod.c 451-459 |
| `to_cgi`, `write` | `ToCgi`, `WriteSome`, `WriteShort`, `WriteFail`, `WriteDone` | `cn_stream_to_cgi`, lisod.c 461-474 |
| `from_cgi` | `FromCgiSkip`, `FromCgi`, `FromCgiEof`, `FromCgiFail` | `cn_stream_from_cgi`, lisod.c 478-497 |
| `dynamic` | `DynamicSkip`, `DynamicEnd`, `ServeDynamic` | `cn_serve_dynamic`, lisod.c 499-512 |
| `static` | `StaticSkip`, `SendErrorPage`, `SendHeader`, `SendBody` | `cn_serve_static`, `cn_send_error_page` |
| `max_fd` | `MaxFd` | lisod.c 526-541 |

A handler that ends a response calls `Finish` (`liso_reset_or_close`), one that
meets a fatal error `DropConn` (`pl_del_conn` with `cn_free`), after which the
same place is visited again. Everything a handler does between two points where
the environment can make a difference is one step; the blocking write is the
only handler that takes several, because programs run while it waits.

**Clients and programs** (external): a client connects once, sends its segments,
reads, and may shut down its sending side (`HalfCloses`) or leave (`Leaves`). A
program is started with the request as `envp_new` tells it (`proc.env`: method,
uri, keep-alive and CONTENT_LENGTH), reads its input, writes `OUTSZ` units and
exits; `CgiOrder` says
whether it reads first, writes first or both, `Faults` whether it may die or
write to its stderr, and whether fork, `SSL_new` or a write cut by a signal can
go wrong. It inherits the ends of the other programs' pipes that the server
holds (`proc.held`), because `cgi_init` closes only its own and leaves the
others open across `execve`; a pipe has ended only when no running program
holds its end either (`Abandoned`). A client's next program takes the place of
the one before in `proc`, also when that one still runs without its pipes: what
it does from then on, and what it would still hold open, is left out. So are
the clients' sockets, which programs inherit too, since nothing sets
close-on-exec: a client of a closed connection sees its end only when the
programs started meanwhile have ended. A program also inherits that SIGPIPE is
ignored, so a write to a broken pipe does not kill it; it is taken to exit when
it meets the error.

**Left out of a step.** An interrupted or failing `select` (lisod.c 373-376)
only logs and continues: it is a stuttering step, as long as `SelectSetsOpen`
holds. A send or receive on a client that left has either outcome until its
reset has come back. `SSL_accept` fails with 0 or a negative number when the
peer is gone.

**The service.** `Http` maps `Liso` to `HttpService`: a call is open while the
connection is in the pool; `heard` is the units of talk that left the kernel and
OpenSSL for the server's buffers (sent, less what waits in `inq` and `pend`);
`said` is `out`; a client is quiet once it half-closed or left. `Known` says
after how many units of the client's stream each reply is determined: the
request's last unit, or the one that shows it to be bad. Every step of `Liso`
is then one of `Accept`, `Refuse`, `Hear`, `Say`, `HangUp`, `Quiet`, or a
stutter; in particular one handler never both hears and says.

**The rounds.** `Rounds` maps `Liso` to `PoolRounds`: the members are the
clients with a socket, a round is a pass of the loop, `todo` the clients at places
from `cur` on (from `cur + 1` on once `recv` has begun a visit) and `turn` the
one being visited. The labels between `recv` and `max_fd` are one turn. A drop
gives the last connection its place and makes the loop visit that place again;
in the abstraction nothing but the dropped member changes.

**Processes.** In `Lifecycle` a server is at a label `at` of main or teardown:
`http`, `https` (the listeners), `lock`, `pid` (daemonize), `ssl`
(`new_ssl_ctx`), `log` (`log_init`), `loop`, then `close`, `release`,
`last_line`, `stop` of teardown, `dead`. `handling` is the state of its SIGCHLD
handler: `unset` until `signal` installs it (a SIGTERM ends the process until
then), `yes` inside it, `never` when SIGTERM's teardown interrupted it, so that
SIGCHLD stays blocked. `sigterm` and `sigchld` are the pending signals; SIGCHLD
is a set, since two that are pending are one. Any of these steps may come
between any two others, so a handler runs in the middle of a log call or of a
teardown.

| actions | code |
| --- | --- |
| `Start`, `OpenListener` | main, `open_listener_socket` |
| `Daemonize`, `WritePid` | `daemonize`: F_TLOCK, then the pid over what the file holds |
| `NewSslCtx`, `LogInit`, `LogInitFail` | `new_ssl_ctx`, `signal`, `log_init` |
| `Fork`, `KidExec`, `KidExecFail`, `KidErr`, `KidExit` | `cgi_init`: the child up to `execve` or `exit` |
| `LogCgi` | `cgi_logerr`: one `log_errln` and one `log_raw` |
| `LogCall` with `LogLock`, `LogWrite`, `LogUnlock` | any log call, system call by system call |
| `HandleTerm`, `DefaultTerm`, `DoubleFree` | SIGTERM, with and without its handler; in the teardown after a failed `log_init` the pool is freed twice and the process may abort |
| `HandleChld`, `Reap`, `ReturnChld` | the SIGCHLD handler; an interrupted `select` fails, which is logged |
| `CloseListeners`, `ReleaseLock`, `LastLine`, `Stop` | `teardown` |
| `Kill` | SIGKILL at any time |

A record lock is the kernel's: it belongs to a process, covers the file from the
offset at which it was asked for to its end, is not inherited, and goes when the
process closes the file. `ofs` is by server, because children share the open
file of theirs; `locked` and `job` are by process. The file is units, one per
write, up to `LOGSZ`, the unit that stands for everything beyond; no instance
writes that far. `log_init` empties the file before it knows whether another
process holds a lock, and a failing one leads to a teardown that logs and so
waits for that lock.

## 4. Properties

| property | says |
| --- | --- |
| `TypeOK`, `PoolTypeOK` | every variable within its declaration, buffers within `BUFSZ` |
| `ResponsesInOrder` | what a client got is a prefix of the replies its requests deserve |
| `BodyFidelity` | a CGI program's environment and input belong to one request; at its end of input it has read all of the body that CONTENT_LENGTH announces |
| `NoLineLeft` | while select waits, no connection holds a whole header line it has not parsed |
| `Backpressure` | while select waits, a socket is in `read_set` exactly while its request is incomplete |
| `RepliesWait` | an answer begins only when its request is complete or refused; a step takes data from a client's socket only while its request is incomplete, or to throw it away while the error page of a refused one waits: then it changes neither the request nor a buffer |
| `Awaited` | while select waits, each connection has a descriptor in a set that will bring it forward |
| `DroppedWhenServed` | a client that is still there is dropped only once it has every reply |
| `FilesWhole` | while a file is sent, what the client was sent so far and what is left end with the header and the whole file, over any number of partial sends |
| `FilesOnce` | and no step in between loses, repeats or overtakes a unit of it |
| `DroppedWhenOver` | an http client that still talks is hung up on only if its request asked for it, and behind a response that has ended |
| `InputFed` | a program is given no more than CONTENT_LENGTH units, whatever follows the body in the buffer, and its input does not end while it is fed |
| `FdsOwned` | each socket or pipe number stored in a connection is that open object, and conversely |
| `PoolIndexed` | array, indices and sockets of the pool agree, within `MAX_CONNS` |
| `SelectSetsOpen` | the select sets name open sockets, listeners and pipes only |
| `MaxFdCovers` | when select is called, `max_fd` covers both sets |
| `VisitedStay` | a pass of the loop neither skips nor repeats a connection |
| `VisitsAll` | `Liso` implements `PoolRounds`: between two calls of `select` every connection of the pool has exactly one turn, it leaves the pool only in its own, and the pool never has more than `MAX_CONNS` |
| `CleanedUp`, `MaxFdSelectable` | nothing open for a dropped connection; `max_fd` below `FD_SETSIZE` (the code breaks both: section 6) |
| `ImplementsHttp` | `Liso` implements `HttpService`: no reply begins before its request is known, replies follow whole and in order, and a client that still talks is hung up on only with the last unit it is owed |
| `Served` | all clients that stay come to have every reply, and no more |
| `InputsEnd` | once a program's input is written it comes to its end, whoever else holds the pipe |
| `LoopReturns` | every pass of the loop ends |
| `PoolDrains` | once all clients are gone the pool empties |
| `OneServer` | at most one server is past `daemonize` |
| `LockNamesServer` | the first line of the lock file is the pid of the server that runs |
| `LogWhole` | the end of line that `log_raw` writes follows its own data |
| `ZombiesNoticed` | while a server has a zombie, a SIGCHLD is pending or the handler runs, unless SIGTERM has begun its teardown |
| `Reaped` | every child that exits is reaped |
| `TermEnds` | a server that was sent SIGTERM ends, wherever it was, unless another server that was not told to end is there to hold the log; of two that wait for each other, both told, both end |
| `LogReturns`, `PortsFreed` | every log call returns; no child keeps a dead server's ports (the code breaks both: section 6) |

`Reply` is the reference: the answer of a server that keeps its word, computed
from the request and not from the parser. `ResponsesInOrder`, `BodyFidelity` and
`DroppedWhenServed` compare with it, and the code breaks them for some values of
the constants (section 6). `FilesWhole`, `FilesOnce`, `DroppedWhenOver` and
`InputFed` are what the code does keep of them for all values: they compare the
output and the programs' input with the request as it was parsed.

## 5. Runs

All passing runs have `CHECK_DEADLOCK FALSE`: the server rightly waits in
`select` for ever once its clients have what they want.

| run | instance | shows |
| --- | --- | --- |
| `static` | 2 clients, 6 requests of every outcome, good ones behind refused ones, `BUFSZ` 8; one over http, cut inside a header and a line, one over https with a handshake of two messages and records that end inside a line and a body, which may leave | pipelining, cuts, records and refused requests do not disturb responses, back-pressure or closing; what arrives while an answer goes out waits for its end, or is thrown away as a whole |
| `slow` | `BUFSZ` 6, room to send 3 units for replies of 2 to 10, fairness | partial sends of headers and files; a header larger than the buffer, a body behind one that nearly fills it; every client is served, the one with valid requests also when it half-closes (an error page would be lost: `v_half`, section 6); files go out whole and once, and end before their client is hung up on; the service is implemented |
| `cgi` | a body in three segments, the last of which goes on with the next request of the connection, another client's request beside it, fairness | the program reads the body its environment announces and nothing of what follows it in the buffer, the client its output, not before the request is complete; all are served; the service is implemented |
| `pool` | 3 clients, one over TLS, pool of 2, one leaves at will; 10 descriptors, `FD_SETSIZE` 9, fork and `SSL_new` fail | refuse, accept, drop and swap in one pass; every failing path of `cgi_init` and of accepting; the loop implements `PoolRounds` |
| `twocgi` | two programs, one with a body, one client leaves, 15 descriptors, fairness | opening, closing and reuse of 2 x 6 pipe ends; inputs end although the other program inherited the pipe |
| `short` | body of 5 for a pipe of 2, a client that leaves at will; signals, dying programs, stderr, fairness | every pass ends, descriptors stay right, the pool empties |
| `life` | two servers, on the same or on different ports, one child; exec fails, SIGTERM and SIGKILL at any time, fairness | one server runs, the lock file names it although the first pid is longer, SIGTERM ends it, also two that wait for each other's locks |
| `log` | a server with two children, every fault, fairness | lines stay whole, coalesced SIGCHLDs lose no child (none is left without a signal or a handler, and all are reaped in the end), SIGTERM ends the server inside any log call |

Why the bounds are enough. `BUFSZ` is smaller than two requests together and, in
`slow`, no larger than a header with a unit of body, so buffers fill, are
parsed in parts, and hold two requests. `SNDBUF` is below a reply wherever
partial sends matter and above wherever the behaviour of section 6 (which
starts with a partial send on the CGI and error paths) would stop the run. In
`cgi` `BUFSZ` leaves `last_buf` room for a part of the next request only, since
one that is there as a whole is never answered (`v_piped`). In `static` a good
request behind a refused one is cut so that it arrives once the error page is
out, or comes in a record of its own, since what arrives before is lost
(`v_lost`, `v_ignored`).
Three clients with a pool of two is the least in which a refused client, a swap
and a visit of the swapped connection meet. 15 descriptors are two connections
with their six pipe ends each; the 10 of `pool` make the second and third pipe
fail, and `accept` too. `PIPESZ` is below a body in `short`; a program's output
fits the pipe there, so that a program which writes first never waits for the
server. `INT_HALF` (half the range of int) is 8 in every run; lengths stay below
it except in `v_clen`. The only unbounded quantities of the code, requests per
client and bytes per request, are fixed by the scenario. In `life` two servers
are the least that compete for a lock, one child the least that keeps a port or
a log lock alive after its server; in `log` two children are the least whose
SIGCHLDs coalesce, and the least in which a child logs while another one's
stderr is logged. `LOGSZ` 12 is more than all writes of an instance. Two
servers with two children are beyond TLC (over five million states); for the
safety properties the proofs cover them.

Scenario choices follow section 6: the passing runs stay clear of those
behaviours (for instance requests piped behind a CGI request where replies are
compared, or a program that writes more than the pipe takes before it reads),
and each of them has a scenario of its own.

## 6. Where the code does otherwise than its documents say

Each scenario below checks one property that a comment, document or test of the
repository states, and TLC finds it violated. The first four are runs of the
project, and `PROJECT.json` (`findings`) quotes the text; the others are
scenarios for the same command, `tlc -config v_head.cfg MCFindings` (`v_log` and
`v_port` are of `MCLife`).

| scenario | what happens |
| --- | --- |
| `v_piped` | a page requested behind a CGI request is never sent: its socket is put in `write_set` and taken out again (lisod.c 506-510) |
| `v_split` | the body of a piped CGI request is counted twice and truncated (conn.c 165) |
| `v_lost` | a good request behind a malformed one in the same segment is never answered: `cn_parse_req` returns before it fills `last_buf`, and the buffer is reset when the error page is out (conn.c 139) |
| `v_log` | a child that waits for the log's lock while the server writes waits until the server ends: `unlock` frees the file from the new offset on and leaves what was written locked (logging.c 31) |
| `v_block` | server and program wait for each other (conn.c 432) |
| `v_nottls` | a client that does not speak TLS stays in the pool, also after it has left (conn.c 214) |
| `v_ignored` | a request that arrives while the error page of the one before it waits is read and thrown away, since the socket stays in `read_set` (lisod.c 452, conn.c 226) |
| `v_tail` | of a request whose beginning was lost that way the tail is parsed as a request and answered with a 400 nobody asked for (conn.c 139) |
| `v_resend` | a partial send of CGI output is sent again from its start (conn.c 475) |
| `v_stale` | a reused descriptor found in the old `read_ready` gives a spurious 500 (lisod.c 482) |
| `v_maxfd` | `max_fd` reaches `FD_SETSIZE` after the check in `cgi_init` (cgi.c 172) |
| `v_head` | a partial send of a HEAD header ends the response (conn.c 376) |
| `v_headbody` | HEAD gets an error page with its body (conn.c 332) |
| `v_errpage` | a partial send of an error page starts again (conn.c 318) |
| `v_signal` | a short write to the program is repeated from the same place (conn.c 432) |
| `v_leak` | the descriptor of an empty file is never closed (response.c 175) |
| `v_torn` | a TLS record in two segments drops its client (conn.c 242) |
| `v_record` | the rest of a TLS record larger than the buffer is never read (conn.c 67) |
| `v_half` | a half-closing client does not get its error page (conn.c 102) |
| `v_clen` | a Content-Length beyond int is taken for a missing one (request.c 221) |
| `v_port` | after the server has ended, a child that inherited the listeners keeps its ports: a restart cannot bind them, although teardown means to "allow port reuse" (lisod.c 48, 156) |

What the scenarios of `Liso` quote: `v_block` lisod.c 464-465 ("without
blocking") and conn.c 429-430; `v_nottls` src/Tests.md 98 ("I would make sure
`poolsz` drops to 0"); `v_ignored` and `v_tail` src/Tests.md 45 ("multiple
requests, including good ones and malformed ones"); `v_resend` buffer.h 3
("Provides buffering to accommodate different bandwidth") and conn.h 159;
`v_stale` README.md 73 ("Once server receives content from `stdout_pipe` from
CGI, it stores the content in buffer"); `v_maxfd` cgi.c 169 ("fd used up!") and
lisod.c 534. Because of `v_nottls`, no passing run can have `PoolDrains` with an
https client that may leave within its handshake.

## 7. Fairness

`FairSpec` adds `Fairness`. The server is a process the system schedules
whenever it is not blocked: `ServerFairness` says that if from some point on it
can always run (`select` has an event, `write` has room or no reader; every
other handler never waits) it takes steps for ever. It is weak fairness of
`Server` with the enabling condition written out as `CanRun`, and says nothing
about which connection is served: that the loop visits everyone is a matter of
the code. Clients connect, send and read, and programs read, write and exit,
each with weak fairness, being processes of their own; a client never has to
leave or to half-close, a program never has to fail, and nothing forces an
event listed in `Faults`. The fairness of a client is of its connecting, sending
and reading together, that of a program of its reading, writing and exiting
together: a process that can go on does, in whatever order. `Served`, `LoopReturns` and `PoolDrains` say
`gone` where the client's leaving is what makes the promise void or binding.

In `Lifecycle` each server (`ServerStep`, with its handlers, since a pending
signal is delivered to a process that runs) and each child (`KidStep`) is one
process with weak fairness. Starting, signalling and killing servers, asking for
a program and writing to its stderr are nobody's duty. No order between a
process and its signals is assumed. A lock is not fair either: `TermEnds` holds
because whoever has the log's lock gives it back, `LogReturns` fails because
part of it is never given back.

## 8. Proofs

### The pool and its descriptors

`LisoProofs` and `PoolProofs` prove, with TLAPS, for every set of clients, every
scenario (`Segments`), and every value of `BUFSZ`, `MAX_CONNS`, `FD_SETSIZE`,
`NOFILE`, `SNDBUF`, `PIPESZ`, `OUTSZ` that satisfies `ConnAssumption` and
`LisoAssumption`:

| theorem | statement |
| --- | --- |
| `Invariant` | `Spec => []IInv` |
| `PoolTypeCorrect` | `Spec => []PoolTypeOK` |
| `FdsAreOwned` | `Spec => []FdsOwned` |
| `PoolIsIndexed` | `Spec => []PoolIndexed` |
| `SelectSetsAreOpen` | `Spec => []SelectSetsOpen` |
| `MaxFdIsEnough` | `Spec => []MaxFdCovers` |
| `VisitedConnectionsStay` | `Spec => VisitedStay` |
| `LoopVisitsAll` | `Spec => VisitsAll` (`PoolRounds` is implemented) |

None of these properties is inductive alone. A connection's close is harmless to
the others only because they own their descriptors (`FdsOwned`); it leaves the
sets clean only because what it closes is a socket or a pipe of the pool
(`SelectSetsOpen` with `PoolIndexed`); `max_fd` covers at `select` only because
the pass covered every connection in turn and drops do not move those already
visited (`TopCovers`). `IInv` joins them with the facts the handlers rely on:
`CgiPipes` (only connections of the pool have pipes, none before `cgi_init`, and
the program's output is open while it is fed), `Writing` (the blocking write is
for such a connection), `Newcomers` (a client that waits has no socket),
`Listeners`. TLC checked `IInv` as an invariant of the models of
`static`, `pool`, `twocgi` and `short`, which between them reach every handler,
before it was proved.

The argument does not treat thirty handlers one by one. Each step of a visit
belongs to a class according to what it does to descriptors and sets:
`SocketStep` (watches its own socket, opens at most what it stores nowhere),
`ResetStep` (`liso_reset_or_close` of a connection kept), `DropStep`
(`pl_del_conn`), `CloseEndStep` (`close_pipe` of one end), `OpenStep`
(`cgi_init`); outside visits there are `AcceptConn` and `QuietStep`, which
changes no descriptor. One lemma per class shows that it keeps `IInv`, one per
group of handlers that they are of a class. `VisitedStay` then follows from the
invariant: a drop changes only the place visited and the last one. So does
`LoopVisitsAll`, with a class of its own for each abstract step: a handler that
goes on with its connection (`StayStep`) is a stutter or a `Call`, `max_fd` a
`Done`, a drop a `Leave`, an accept a `Join` or a `Begin`. It needs `PoolIndexed`
to know that no two places hold the same connection, so that taking one place
off the list takes off one member.

### Requests, buffers and selection

`ConnProofs`, `RequestProofs` and `StreamProofs` hold under the same assumptions,
for all requests, well formed or not, and however clients cut them:

| theorem | statement |
| --- | --- |
| `LinesParsedInParts` | feeding `req_parse` some whole lines and later others gives the request, the position and the status of feeding all of them at once |
| `StreamInvariant` | `Spec => []StreamInv` |
| `TypesCorrect` | `Spec => []TypeOK` |
| `NoLineIsLeft` | `Spec => []NoLineLeft` |
| `BackpressureHolds` | `Spec => []Backpressure` |
| `OnlyUnbegunIsStranded` | whenever `select` is called, a connection with no descriptor in a set holds a complete request whose answer has not begun |
| `RepliesAwaitRequests` | `Spec => RepliesWait`: nothing is sent for a request that is neither complete nor refused, and nothing is taken from a socket behind a complete one; behind a refused one nothing that is taken is kept |
| `AwaitedWithoutCgi` | `Spec => []Awaited` if `CgiUri = {}` |

`StreamInv` is `IInv` and three more parts.

- `RInv`: which response, program and buffer go with the phase of a request
  (`Content`: while it is read they wait and the buffer holds no whole line; a
  static one is answered from a file, a dynamic one by its program, a refused
  one by an error page), and which of the socket and the program's output are
  selected at each handler of the visit (`Selected`). `Backpressure` speaks of
  `select` only; a handler relies on what the handlers before it left in the
  sets, which is why `Selected` has the handler as a parameter. Its last part,
  `ReadyRead`, is about staleness: until a connection's turn comes, a socket
  that was reported ready is still in `read_set`, so `cn_recv` never receives
  for a request that is already complete, although other connections' visits
  close and reuse descriptors in between. With it `RepliesAwaitRequests` is short:
  data is taken for a request that is being read (`TakenForRequest`), by a
  handshake, which keeps nothing, or by `recv_ignore`, which leaves request and
  buffers alone; a dropped connection takes nothing (`DropTakesNothing`).
- `WireInv`: what is in flight has its type, an http client's bytes are never
  TLS, and after the last message of a handshake only records follow. Without it
  `SSL_read` could put units into the buffer that are no request data.
- `SentInv`: a blocking write never takes more than the buffer holds, a client
  never has read more than was sent, a program's state keeps its type.

The bound of the buffers is proved with them: what is received after a piped
request was copied from `last_buf`, the output of a program read into the same
buffer and an error page built in it all stay within `BUFSZ`. `NoLineLeft` needs
a fact about the parser, that a search from `last_recv_end` misses no line if
there was none before it (`ParseHeaderFacts`), and about `liso_reset_or_close`,
that a piped request leaves none. TLC checked `RInv`, `WireInv` and `SentInv` as
invariants of every run of `Liso` before they were proved, the scenarios of
section 6 included (`v_errpage` and `v_resend`, which send the same units again
without end, only as far as it came in five minutes).

`Awaited` is false in general (`v_piped`): hence `OnlyUnbegunIsStranded`, which
says that this is the only way a connection is forgotten, never in the middle
of a request or of an answer; and `AwaitedWithoutCgi`, which says that it takes a
CGI program.

**Assumptions.** `ConnAssumption` and `LisoAssumption` say that the constants are
numbers of their kind; `NOFILE` and `FD_SETSIZE` above 2, so that the listeners
exist and can be selected; `HDRSZ < BUFSZ`, as `cn_send_error_page` has it
("Assumes error page fits into buffer", conn.c 307); `CgiUri` and the sizes of
files about existing paths; and that an https client ends its handshake with a
message that is its last and sends only records after it (`HandshakeFirst`, TLS
itself; an https client that never speaks TLS satisfies it as well).
`LinesParsedInParts` is about lines that end where the next ones begin, as
`cn_parse_req` gives them, and a request that is still in its header after the
first ones: after an error, or after the empty line, `req_parse` is not called
again.

### Responses and the input of programs

`ReplyProofs` holds under the same assumptions, whatever clients and programs do:

| theorem | statement |
| --- | --- |
| `ReplyInvariant` | `Spec => [](StreamInv /\ ReplyInv)` |
| `FilesGoOutWhole` | `Spec => []FilesWhole` |
| `FilesGoOutOnce` | `Spec => FilesOnce` |
| `ReadyInvariant` | `Spec => [](StreamInv /\ ReplyInv /\ ReadyInv)` |
| `HungUpWhenOver` | `Spec => DroppedWhenOver` |
| `FedInvariant` | `Spec => [](StreamInv /\ FedInv)` |
| `ProgramsGetTheirBody` | `Spec => []InputFed` |

- `ReplyInv`: `FilesWhole` itself, and that a response under way has something
  left to send in the part its phase names. A send of nothing returns 0, which
  the code takes for a lost client, so `DroppedWhenOver` needs the second fact.
  Of a CGI response it says that it is over (`DONE`) only when the program has
  exited and all it wrote was read. The step is one fact about sequences
  (`MovedPart`): a part moved from what is left to what was sent leaves their
  concatenation as it was, which is also `FilesOnce`.
- `ReadyInv`: until a connection's turn, a socket reported readable has data or
  an end of file, and one reported writable has room; from its turn on the
  second holds until something is sent to it, and `cn_serve_static` sends only
  to a connection that `cn_serve_dynamic` left alone in this pass. `select` alone
  does not give this, because the pass accepts clients into descriptors and
  drops others after it: so the invariant also says that, while listeners are
  served, no descriptor reported ready is free. Then `recv` and `send` return 0 for an
  http client only when it has left or shut down its side, and every hang-up on
  one that still talks is `liso_reset_or_close` with `alive` cleared.
- `FedInv`: for a program that is fed, the units it was given, those the server
  has for it and those its request still has to receive amount to no more than
  the CONTENT_LENGTH it was told (`Feeding`). This begins when the request's
  header ends (`ToStart`), and takes facts about the parser: how much of the
  buffer counts as body when it is short, exact or exceeded (`BodyLength`,
  `HeaderLength`, `ParseReqLength`). A body counted twice (`v_split`) makes the
  input shorter, never longer, and a write repeated after a signal (`v_signal`)
  repeats units within the count: both break `BodyFidelity`, neither breaks
  `InputFed`.

`DroppedWhenOver` is about http clients: `SSL_read` and `SSL_write` may fail on a
socket that is ready (`v_torn`), and the code drops the client then. It does not
say that the header of a HEAD response is complete (`v_head`). TLC finds the
three invariants to hold on the models of `static`, `slow`, `cgi`, `twocgi`,
`v_split` and `v_signal`.

### Processes: lock file, log and children

`LifecycleProofs` and `LoggingProofs` hold for every set of servers and children
(disjoint, `LoggingAssumption`), every `LOGSZ` above 0, and every pid that is a
sequence of digits (`LifecycleAssumption`):

| theorem | statement |
| --- | --- |
| `LockInvariant` | `Spec => []LockInv` |
| `OnlyOneServer` | `Spec => []OneServer` |
| `LockFileNamesServer` | `Spec => []LockNamesServer` |
| `LogInvariant` | `Spec => []LogInv` |
| `LogStaysWhole` | `Spec => []LogWhole` |
| `NoZombieIsForgotten` | `Spec => []ZombiesNoticed` |

`OneServer` needs that whoever is past `daemonize` holds the lock (`HoldsLock`):
exits and `release_lock` give up only one's own. `LockNamesServer` needs in
addition that the file starts with the runner's line (`Stamped`), which only the
holder overwrites, and that a pid has no end of line in it. `LogWhole` rests on
mutual exclusion: a process that writes has the last unit of the log locked
(`Holds`) and no two have it, because a lock is given only where nobody else has
one and `unlock` frees that unit whatever the offset has become. That no server
empties the log meanwhile is `HoldsLock` again: only a server that has the lock
file gets to `log_init`, and only one in the loop is in `log_raw` (`Plain`).
What `unlock` leaves locked, the behaviour of `v_log`, is harmless to safety.

`ZombiesNoticed` is the safety half of `Reaped`: that the handler is scheduled is
fairness, that one is due as long as there is a zombie is proved. It needs that
handlers are installed before any child is forked (`Before`), that only teardown
leaves a handler unfinished for ever, and that no zombie outlives its server;
the handler returns only when nobody is left to reap, which is why a SIGCHLD that
stands for two exits is enough.

### What stays with TLC

- `ResponsesInOrder`, `BodyFidelity`, `DroppedWhenServed`, `ImplementsHttp`,
  `CleanedUp`, `MaxFdSelectable`, and `Awaited` with CGI programs: the code
  breaks each of them for some values of the constants (section 6), so that
  nothing can be proved about all values. TLC checks them on instances that stay
  clear of those cases. What is left of the first three for every
  value is proved in `ReplyProofs`. That the request answered is the one the
  client sent would need the parser compared with `Encode` over requests of any
  length, which is induction over data.
- `Served`, `InputsEnd`, `LoopReturns`, `PoolDrains`, `Reaped`, `TermEnds`: liveness
  under fairness, which needs `ENABLED`, is beyond the prover.
- What `req_parse` computes for every input: the library's induction theorems
  take an operator as parameter. A statement about all prefixes of a sequence,
  like `LinesParsedInParts`, can still be proved, by taking the least number in
  the set of its counterexamples.

## 9. Not modelled

- Characters: the text of lines, headers beyond Content-Length and Connection,
  parameters, paths and default pages, content types, dates, the entries of the
  environment block besides those of `proc.env`, the text of log lines. The outcome of parsing a line is what matters here.
- In `Liso`, signals other than their effect on `write`, and the log: a child
  whose `execve` fails is there a program that exits. In `Lifecycle`, what SIGTERM
  does to an allocator, to OpenSSL or to `localtime` when it interrupts them; SIGHUP,
  whose handler does nothing but end a `select`; failures of `socket`, `listen`,
  the first `fork` and the opening of the lock file, which end the process like
  those that are modelled; `SSL_CTX_check_private_key`, whose failure is only
  printed ("Server NOT started", lisod.c 129-132) and then ignored.
- Connections in TIME_WAIT, which keep a port from being bound for some minutes:
  `bind` fails in the model only while a process has a listener there.
- Memory allocation, which the code does not check.
- `SSL_shutdown`; renegotiation.
- A client that connects again: another client stands for it.
- The sample application, the echo client and the test scripts.

## 10. Plan

Done: the loop with its scenarios, the refinements of `HttpService` and
`PoolRounds`, inherited pipes, logging and lifecycle, and the proofs of section 8.
Next, in this order:

1. `ResponsesInOrder` for static requests as a theorem: `FilesWhole` for each
   reply, and that replies follow each other in the order of the requests, which
   needs the parser compared with `Encode` for one request at a time.
2. Reference checks for pure parts: `ReqParse` fed whole and in cuts over all
   short inputs; the number of entries `envp_new` writes.
3. Clients that connect again, for the reuse of a connection's fields.
