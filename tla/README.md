# A model of the forensics tool

The tool is a console program for working on forensic cases: it opens a case,
reads disks and files, and keeps a log of everything that was done. Other users
may reach a running tool over the network and type the same commands. This
directory holds TLA+ models of it, the TLC configurations that check them, and
proofs of the facts that hold for instances of every size.

Own code is about 3600 lines of C and C++ (`*.cpp`, `*.h` and
`filenavigator/filenavigator.cpp`); `libraries/` is wxWidgets and libpcap, and
is not modelled.

## 1. The system

| Part | Source | State | Operations | Talks to |
|---|---|---|---|---|
| console | `main.cpp` | its `Case` | read a line, `parse`, print | everything |
| command parser | `cli.cpp` | none | one command at a time, most of them behind the test whether a case is open (`deletedfiles`, `netdev` and `navigator` are not) | all parts, by calls |
| case sessions | `case.cpp`, `case.h` | `./cases/<case>/lock`, `log.txt`, a `Case` structure per session | new, open, close, log, clear locks | files shared by all sessions and all processes |
| server | `server.cpp` | `server_running`, a listener thread, a talker thread per client, a socket variable they share | on, off, accept, read, execute, answer | clients, by TCP; the parser |
| client | `client.cpp` | its socket, shared by two threads | connect, send a line, show what arrives | a server |
| copy | `copy.cpp` | a file in the case directory | copy an original into the case | case sessions (their lock is its only protection), log |
| partition tables | `disk.cpp` | the buffer it prints into | list primary partitions, follow the chain of EBRs | a disk image |
| deleted files | `deletedFiles*.cpp` | none kept | choose a file system, scan a FAT32 directory or an NTFS MFT, decode numbers and dates | a disk image, log |
| file search | `filesearch.cpp` | the results | traverse a tree, look into files, open or edit a result | the file system, hex editor, log |
| hex editor | `hexedit.cpp` | a file | display, replace a byte | the file, log |
| packet sniffer | `sniff.cpp`, `sniff.h` | `SnifferState` on the heap, two threads, two files in the case | on, off, show, hide, psd on, psd off | libpcap, log, display (the console, or a client by its socket) |
| packet display | `sniff.cpp` | the five recent packets, shared by both threads | store, print one, print all | the text log, the terminal |
| port scan detector | `sniff.cpp` | a `Host` per pair of addresses | take a packet, raise the alarm | sniffer, log |
| navigator launcher | `navigator.cpp` | none | fork and exec | file navigator |
| file navigator | `filenavigator/filenavigator.cpp` | history and index, path field, list | up, back, forward, go, activate | the file system, wxWidgets events |

What is hard about it:

* several **sessions** (console, talkers, other processes) work on one
  directory, and nothing but a lock *file*, tested and then created, keeps them
  apart;
* **threads** share variables without a lock: `server_running`,
  `the_new_socket`, the client's socket, `SnifferState`, and the one `struct tm`
  of `localtime`; some are cancelled and not waited for;
* logs are **buffered streams**: a crash loses what was already reported, and
  flushes come late and out of order;
* **TCP** joins writes, a client leaves at any time, a write after that kills
  the server's process, whichever of its threads writes; a command may stop in
  the middle to ask its user;
* disks, directories and files are **whatever they are**: scans meet every
  image, and what is listed must be what is there.

The places where this is at risk are the hazards of `PROJECT.json`, each with
its line and with the properties that would notice.

## 2. The modules

Each component has a module of its own with the names of the source. A module
that needs symmetry, functions as constants or a smaller set of initial states
has an `MC` module; the others are checked directly.

| Module | Models | Abstracted |
|---|---|---|
| `CaseSessions` | `Case` fields, lock files, `log.txt` and its buffer, process start, exit, crash | texts: an entry is who wrote it and which kind it is |
| `CaseLock` | what the locks promise: one owner per case, handed over by release or by a restart | |
| `CaseOwnership` | the owner of each case, told from the locks and the sessions: `CaseLock` by a refinement mapping | |
| `Server` | listener, talkers, clients with their text thread, TCP streams, disconnects, SIGPIPE, `get_input`, by which a command asks its user, and the display of a sniffer as far as it writes to a client | of a line counts what it was typed at, prompt or question; output is one of five texts |
| `Sniffer` | the commands sniffer and psd, with the questions they ask in between; threads, cancellation, `open_case` | packets are counted |
| `PortScan` | `Host::newPacket`, `clear`, `psdProcessPacket`, `alertScan` | addresses are pairs; time is in a unit of the delay |
| `PacketRing` | the recent packets: `processPacket` and `printPacket`, each read and write of a pointer, and of the `struct tm` a time is formatted from, a step; and the display's frames | a packet is its number |
| `Copy` | `copy` step by step, by several sessions, with failures | contents are blocks, each with its place in the original |
| `Evidence` | `CaseSessions` and `Copy` together: the copy command in open cases, crashes, exits and restarts | |
| `HexEdit` | `displayFile`, `replace` step by step, by several sessions each with its own log, on a file that may fail | bytes are model values, of which some are white space and one is FF; `atoi` and `FromHex` are given by functions |
| `SearchResults` | the tree, the results, what the user did with them, the digits of `ToHex`; what a search promises | a file is one line |
| `FileSearch` | its steps: `traverse`, `searchFile`, nodes removed meanwhile or impossible to open; `displayResults`, `getSelection`, `getPath` | |
| `PartitionTable` | table, EBRs and the output; what the list of partitions promises | of an EBR count signature and link |
| `Partitions` | its steps: `print_primary`, `print_extended`, and the buffer both print into | |
| `DeletedFiles` | `listDeletedFiles`: the choice of the file system, the scan, the count in the log | |
| `FatScan` | the loop of `listDeletedFilesFat32` | of an entry count "deleted" and "part of a long name" |
| `NtfsScan` | the loops of `listDeletedFilesNtfs` | the image is counted in cells |
| `Decode` | `readWord`, `readDWord`, `readLongLong`, `printDate`, `printTime`, `getRootDirLocation`, `getMftOffset`, as operators | a byte may have fewer than 256 values |
| `FileNavigator` | history, buttons, path field, the two readings of a directory | widgets |
| `BrowserHistory` | what the history promises: before, here, after | |

The proofs are in modules of their own: `CaseProofs` (of `CaseSessions`,
`CaseOwnership`, `Copy` and `Evidence`), `ServerProofs`, `SnifferProofs`,
`PacketRingProofs`, `PortScanProofs`, `FileNavigatorProofs`, `FileProofs` (of
`HexEdit`, `SearchResults` and `FileSearch`) and `DiskProofs` (of `DeletedFiles`,
`FatScan`, `NtfsScan`, `Decode`, `PartitionTable` and `Partitions`).

State and actions follow the code: a variable has the name of the variable or
field it stands for, an action the name of its function or what the function
does there. Where another session, thread or program can observe what is
between two system calls, they are two actions and `pc` tells where a session
is; where nobody can, the function is one action. In `CaseSessions`, for
example, `open_case` is `CheckLock` (up to the test of the lock file),
`CreateLock` and `OpenLog`; `close_case` is `Close` (the lock is removed) and
`FinishClose` (the last entry, the flush). A system call that may fail, and on
the failure of which the code does something else, is a disjunct; section 8
lists those that are left out.

How modules are put together:

* `DeletedFiles` takes `FatScan` and `NtfsScan` as instances that share its
  `pc` and `listed`, runs the one the command chooses, and logs what it found;
  it extends `Decode`, by which the scans read their numbers.
* `PartitionTable` and `SearchResults` hold what a user of these commands sees
  and what he is promised of it; `Partitions` and `FileSearch` extend them by
  the steps. The proofs extend the same modules and take the steps as an
  instance (`Table`, `Search`), whose names would otherwise meet those of
  `DeletedFiles` and `HexEdit`.
* `CaseLock` and `BrowserHistory` are abstract specifications;
  `CaseOwnership` and `FileNavigator` give the refinement mappings.
  The owner of a lock is the session that holds the case, *free*, or *stale*
  where a lock is left without a holder. Of a history, *before*, *here* and
  *after* are the deque cut at its index.
* `Evidence` extends `CaseSessions` and takes `Copy` as an instance, with a
  file named by its case and its name there. A copy starts in a session whose
  case is open and that is in no other command; the path is built from
  `case_name`, once. Starts of a process interrupt no copy; its exit and its
  crash end those of all its sessions.
* `CaseSessions` and `Server` share only the session: a talker's `Case`
  (`CaseSessions!Connect`, `TalkerExit`) begins when `Server`'s talker starts
  and ends when it returns. `HexEdit` and `Sniffer` run inside an open
  case; of it the sniffer meets the `open_case` that resets `snifferState`,
  which is an action of `Sniffer`. `PacketRing` is inside a sniffer: its
  capture threads are started and cancelled as in `Sniffer`.

A definition marked *variant* in a comment is not the code. It is a mistake the
definition below it could have had, and shows that a property notices it: with
the variant in place of the definition, the property named for it in
`PROJECT.json` ("mutants") fails.

**History variables.** Several promises of the tool hold unless something is
done that the code does not prevent. Such a property names the event, with a
history variable, so that it can be checked along with all other behaviours:
`broken` (cases whose lock was created over a lock, or cleared in use),
`raced` (files truncated by a second copy), `refused` (the parts of a copy the
disk did not take), `marred` (positions in a file that two sessions replaced at
the same time, or whose byte the disk did not take), `done` (the replacements of
all sessions in their order, each with its row in a log), `ahead` (clients that typed before they were asked, or had their
own program answer in the middle of a question), `"torn"` (a client that left
with a line unanswered, an answer unread or its sniffer running), `unread` (entries of the partition
table in whose chain a read failed) and `sure` (of a printed EBR: none had
failed by then), `peeked` (packets displayed before they were logged), `retimed` (packets the time
of which was overwritten before it was formatted), `mixed` (two capture threads
storing at once). Section 7 says what happens then.

## 3. Bounds

Every bound is a constant; none of them is in the code.

| Bound | Limits | Value | Why it is enough |
|---|---|---|---|
| `MaxEntries` | entries of a log | 3 in `case_serial`, 2 in `evidence` | an opening, a note and a closing; two entries of two sessions in every order |
| `Procs`, `Sessions`, `Cases` | | 1, 2, 2 in `case_serial`; 2, 2, 1 in `evidence` | two sessions to hold and to wait, a second case to go to; the properties of a lock are about one case, and the start of a second process is what clears it in use |
| `FileNames`, `Originals`, `Size` | of `Evidence`: names in a case, originals, blocks of each | 1, 2, 2 | two originals to mix under one name, and a block behind another; what is said of a name does not depend on others |
| `MaxLines`, `MaxStarts` | lines sent; listeners and connections together | 2, 3 | two lines are what a read can join, a command and its answer; two listeners compete for the port with a client on either, two clients for the variable of one. One client at a time has a sniffer's display, and a frame is not written while the client has something to read: a frame answers nothing, and what counts is that there may be one |
| `States`, `Threads`, `MaxPackets` | `SnifferState`s, pairs of threads, packets of each | 2, 2, 1 | a sniffer out of reach and another beside it; a restart of one; a packet in the middle of a stop |
| `Threads`, `MaxPackets`, `Slots` | of `PacketRing` | 2, 3, 3 | a capture thread cancelled and the next; a slot that is neither the first nor the last, and a packet that comes while the ring is displayed, up to one that fills it |
| `MaxTime`, `MaxPackets` | of `PortScan` | 3, 5 | a pause of the delay before, between and after the packets of an alarm, and the next streak |
| `MaxFaults`, `MaxFaulty` | failing reads and writes; nodes that may not be opened | 1 or 2 | one of each call; a directory or a file, at each try |
| `MaxGone` | nodes removed during a search and after it | 2 | a directory and a file in it |
| `MaxPicks` | results opened or edited (done and logged together) | 2 | an edit with its log, or two other commands |
| `Names`, `Lines`, `Keys` | of `FileSearch`: what nodes are called, what a file holds, what is looked for | `SomeNames`, `SomeLines`, `SomeKeys` | letters of both cases, names that begin with a keyword or have it behind; bytes of one digit, of two and of eight; one keyword or two; what is looked for at an end, inside, not there, or there by its digits only |
| `MaxEdits`, `Bytes`, `Positions`, `Values` | replacements; bytes there are, what is typed for a position and a value | 2, 2, 4, 2 | one of each session at one byte; white space and FF, the two bytes the code confuses; two positions in the file, one of them typed in two ways, and one behind it |
| `MaxListed`, `MaxEbrs` | files, and EBRs of one entry, kept by the model | 2, 3 | the properties are about the order of two and the end of the list |
| `Size`, `N`, `Records`, `Cells`, `Sectors`, `Entries` | sizes of files and images | 2 to 6 | see below |

The FAT32 directories and the partition tables are *all* those of their size, and
this is what counts: six directory entries hold two long names in a row with an
entry between, and four sectors hold every shape of a chain of EBRs, with the
loops, and starts behind the image; an address from `Wrap` on is that of another
sector, as the 32-bit product is. `MCPartitions` gives sector 0 the signature and
a link, as the first sector of a partitioned disk has them if it is taken for an
EBR. An extended entry that starts at sector 0 is left out: its record would be
the table itself. Of NTFS images `MCDeletedFiles` takes those in which one
record of a deleted file has any attributes - longer ones, with a name of their
own, with runs, of a negative length - and the other names and end marks; all of
them are too many for TLC, and the theorems of section 6 are about all of them.
In `Server` and `Sniffer` names of listeners, clients, structures and threads are
taken in a fixed order, as nothing but the name tells them apart.

Three limits of the code are given small values, and the theorems hold for
others as well: `historyMaxSize` (30, checked at 3), `MAX_NUM_PORTS` (20, checked at 3)
and the recent packets kept (5, checked at 3).
`MAX_THREADS` is not in the model: the table it is the size of is written and
never read. In `Decode` every day and month is checked with the years that have
one bit, none or all, and numbers of four and eight bytes of four values each;
that a byte has 256 values changes no carry, as the code shifts by whole bytes,
and the theorems of section 6 say so for every even number of values.
Places on the disk are computed there from numbers of which one byte is not 0
(`Sparse`): they are sums and products of these numbers, and each byte of each
number is there with the others small.

## 4. The runs

| Run | What it asks, and shows |
|---|---|
| `case_serial` | One process, a console and a talker whose commands do not overlap, two cases, exits, crashes and restarts. A case has one holder; name, directory and log of a session agree through refused and failed opens; the log of a case is made of whole brackets (opened, notes, closing), never one inside the other; the lock files implement `CaseLock`. |
| `evidence` | Two processes and two sessions whose system calls interleave, copying two originals to one name, with failing reads and writes, exits, crashes and restarts at every step; each start clears the locks. A case has one holder whose lock is there *unless* its lock was broken in one of the two ways there are; the entries of each session remain brackets, of which a crash cuts off the end only; two copies come to write one file only in a case whose lock was broken; but for that a copy has the parts of one original in their order, without those the disk refused, as many as the log counts; it is never overwritten and is logged once. |
| `case_race` | Expected to fail: that overlapping opens exclude each other, as `case.cpp:112` says. TLC shows two sessions that test before either creates. |
| `server` | Two listeners, two clients, commands that ask back, a sniffer's display, SIGPIPE and resets. A talker serves the client it was created for although it reads the descriptor from a variable that is overwritten; a line is one command, or the answer to the question it was typed at, for users who wait to be asked; a client that leaves with nothing under way and no sniffer running never brings the server down; after "server off" for good the port is free and the talkers end, all but those waiting for a line of a client still there or for an answer. |
| `navigator` | Three entries of history, directories that vanish between two openings. The deque is a bounded browser history, with no entry beside its equal; list, path field and history show one directory; each handler returns, or the program dies where a directory goes between its two readings (`"fault"`). |
| `sniffer` | Two cases, a session that opens and closes them with a sniffer running. Detection and display are on only with the sniffer; the flags tell which capture thread is alive; cancelled threads end. |
| `port_scan` | Every run of packets of two pairs of hosts. The alarm comes at exactly the packets that bring the number of ports since the last pause or alarm to the limit, and what is kept between packets is just that set. |
| `packet_ring` | A capture thread, its successor after a stop, and the display, a pointer at a time. The text log has for every packet its own row, if the display did not print it first, with its own time, if no other thread took one in between, and only the display can crash; a row on the screen is of a packet that was at its place while the frame was drawn, and a frame nothing came into is the latest packets. |
| `partitions` | All images of four sectors, the first of them signed. A sound chain is listed in its order and whole, whatever the other entries are. A read that fails takes away only from what comes behind it in its own chain; the next entry that is printed takes the place of a whole chain. Only signed records are listed on any chain; a sound disk ends. |
| `deleted_files` | All FAT32 directories of six entries, MFTs of two records with any attributes in one of them. On FAT32 deleted files are listed once, in order, none passed over; a long name has all its pieces, last first. On NTFS no name is passed over that comes before an attribute with a name of its own or with runs; if there is none of those the names are listed in order, each once, and the number logged is theirs; the scan ends, unless it has lost its way behind such an attribute. Dates are as written, as are numbers that fit an int and the places computed from them. |
| `hex_edit` | Two sessions replacing bytes of one file. The logs of both, in the order things were done, tell the history of each byte, but for bytes replaced at the same time or refused by the disk: what was carried out names the byte that was there, the last the byte that is there, and only an entry that names FF may be of nothing; what is replaced is what the screen shows. |
| `file_search` | Every tree of three directories and a file, from which nodes are removed during the search and after it, and of which one may fail to be opened or read. Nothing is a result more often than it can match (by name, by contents), and what is still there at the end, and was not kept from the search, is one exactly as often, for a hex search at least; letters of both cases are alike in lines, and a name is found by small ones only; what is opened or edited is what was listed under the number typed, and is in the log. |

Each module states its type invariant, `TypeOK`. It tells the reader the range
of each variable and is the base of the inductive invariants of section 6; of
the runs `case_serial` lists it, and it holds in those of the other modules.

`CHECK_DEADLOCK FALSE` stands where the system really stops: a bound on
packets, edits or lines is used up, or the server's process is dead.

## 5. Fairness, and what is assumed

Liveness is asked only of what the program has to do by itself. A thread that
can run is scheduled: weak fairness of `ListenerStep`, `TalkerStep` and
`TextRead` (one conjunct per thread), of the steps of a sniffer's threads and of
those of a function that loops (`Partitions`, `DeletedFiles`, `FileNavigator`). No fairness is given to users, packets, crashes,
faults or other programs: nobody owes the tool a line. Weak fairness is enough
where a thread that is able to take its step stays so until it does. The one
exception is the end of a cancelled capture thread: it is able to end between
two packets only, and the next packet may come first. `EndCapture` has strong
fairness, which says that packets do not come without a pause for ever;
pthreads acts on a cancellation at the next call that waits.

`Server` is checked with `PromptThreads = TRUE`: a new thread reads its argument
within the `sleep(1)` of the listener. Without it `TalkerOwnsItsSocket` is
false, which is what that `sleep` is there for (section 7).

## 6. What is proved

TLAPS proves the following for every value of the constants that meets the
`ASSUME`s of the modules, which TLC evaluates in their runs. A theorem about an
invariant `Inv` goes by an inductive one, from which `Inv` follows; what has to
be added to `Inv`, and why, is said below. Two hypotheses are named in theorems:
`SingleInstance`, one process at most, with commands that do not overlap (the
specification is `SerialSpec`), and `PromptThreads`, a thread that copies its
argument within the `sleep(1)` of the listener. Section 7 says what happens
without them.

### Sessions, locks and logs (`CaseProofs`)

* `TypeCorrect`: the type invariant. `FieldsAgree`: name, directory and log of a
  session agree when the log is open.
* `Exclusion`: as long as no lock of a case was created over an existing one or
  cleared while in use, the case has one holder, and its lock file is there.
  The property is not inductive: nothing in it says that a session whose log
  is about to be opened is the holder its lock was created for. `CaseInv` adds
  what is between the calls. In a session at `create` or `log` no log is open
  and the name is a case; at `log` the directory is that of the name; with an
  open log, log, name and directory are one; in a process that does not run no
  log is open.
* `SerialExclusion` (with `SingleInstance`): two sessions never hold one case.
  `SerialInv` adds to `CaseInv` that no lock was broken, that at most one
  session is between calls, that a session about to create a lock still finds
  none, and that the sessions of a process that does not run are off, so that
  its start clears no lock in use.
* `LocksImplementOwnership` (with `SingleInstance`): every step of the sessions
  is a step of `CaseLock`, or leaves its owners alone. `SerialInv`
  gives that the holder of a case is one and its lock is there, so that the owner
  is told from the locks and the sessions (`OwnerIs`).
* `SessionBrackets`, and `SessionBracketsWithCopies` with what the copies log:
  the entries of one session in a log, with those it has still in its stream,
  are an opening, notes, and a closing before the next opening, under every
  interleaving and crash. `LogsInv` says of an open stream what the
  property cannot: it begins with an opening, or the file ends, for this
  session, inside a bracket. Flushes come late and at any time, so the two
  are not told apart by where the session is, but a flush preserves their
  disjunction.
* `OneAccount` (with `SingleInstance`): a whole log is such an account, and
  entries of two sessions are never mixed. `SerialLogInv` puts `SerialInv` and
  `LogsInv` together and adds that a log has one writer, who wrote the last
  entry of the file if his stream does not begin with an opening.
* `EvidenceTypes` and `ExclusionWithCopies`: types and exclusion when sessions
  copy as well. `Genuine`, `LogIsEvidence` and `Preserved` state
  `CopiesAreGenuine`, `LoggedOnce` and `NothingOverwritten`: but for raced files
  a copy is one original as far as it came, in order and but for the parts the
  disk refused, what the log says of its length stays true, and no step changes
  or removes a block. `LocksKeepCopiesApart` says that only in a
  case with a broken lock can a file be raced. The invariant `EvidenceInv` has
  three parts. `CaseInv`, that of the case sessions, holds as a step of
  `Evidence` is one of `CaseSessions` or leaves it alone (`StepIsNext`).
  `FilesInv` says of the files what the three promises do not: the file of a
  session that has opened it is there and holds just the parts the session has
  read, but for those refused (`Writes`), two of them never have one file (`Alone`), and nobody
  writes a file in the log (`Finished`). `LocksInv` joins the two: a session
  that copies has the case of the file open and is in no other command
  (`InCase`), and until it has opened the copy nobody else can have made it
  (`Unused`), which is where exclusion is needed.

### Server and clients (`ServerProofs`, with `PromptThreads`)

* `TypeCorrect`, and `OwnSocket`: a talker serves the connection it was started
  for. `SocketInv` adds that while a thread has not read its argument the
  listener that created it sleeps, with that socket in its variable.
* `OneLine`: a command, or a question, gets one line, typed at it, unless the
  client is in `ahead`. `QuietLeavers`: the process dies only if some client left
  with a line unanswered, an answer unread or its sniffer running, whichever
  thread it is that writes. Both need `ServerInv`: a client is
  in one place only, the backlog, a listener's hands or a talker's
  (`ConnectedOnce`); of a client not in `ahead` one thing at most is under way,
  a request for a line or the line, on the wire or on the screen, and it is what
  its talker expects next (`OneUnderWay`); a client that left quietly is written
  to at most once, before the connection is reset (`LineInv`), and has no display
  (`Displays`).

### Sniffer (`SnifferProofs`, `PacketRingProofs`, `PortScanProofs`)

* `TypeCorrect`; `PsdOnlySniffing`: detection only with the sniffer;
  `OneCapture`: the capture thread alive is the one the structure knows, and the
  flag tells whether there is one. `SnifferInv` adds that a structure
  not yet allocated says not sniffing, and that between the questions of
  a start the structure is there and says so too. It holds for any number of
  structures left behind by `open_case`.
* `PacketRingProofs`: `TypeCorrect`; `LogIsGenuine`, the text log has its own row
  for each packet not displayed before, with its own time unless another thread
  took one in between: a thread about to format finds its packet's in the
  `struct tm`, or the packet is in `retimed`; `DisplayIsRecent`, a row on the screen is of a packet that was
  at its place while the frame was drawn. The invariant (`RingInv`) says what
  the ring is in the middle of a packet: both columns of pointers are shifted
  from the last slot down to where the thread is (`Ring`), so that each
  slot holds what it should after `n` packets or what it should after `n - 1`
  (`Column`); a thread that stores has the newest packet in its hands (`Copied`),
  and at most one does (`OneStores`). All of that as long as no two capture
  threads have stored at once (`mixed`).
* `PortScanProofs`: `TypeCorrect`, which holds that a `Host` always keeps fewer
  ports than the limit; `AlarmsExact`, the alarm comes at exactly the packets at
  which the property's count over the whole history reaches the limit;
  `StreaksRemembered`. Between the two is `Remembers`: what a `Host` keeps is the
  ports of its streak, and its time that of its last packet. The lemmas say how
  the streak of the history grows by one packet.

### File navigator (`FileNavigatorProofs`)

* `HistoryBounded`, `NeighboursDiffer`: the index is inside the history, the
  history within its limit, no entry beside its equal. `HistInv` is both together
  with the fact that the deque is a sequence; the lemmas say what `pop_front`,
  `pop_back` and `push_back` do to a sequence without repeats.
* `WindowShowsCurrent`: list, path field, buttons and history show one directory
  between the user's actions; `ShowInv` adds that between the two readings of a
  directory the path field is already that of the second.
* `ImplementsBrowserHistory`: every step of the window is one of `BrowserHistory`,
  or a stutter, with the deque cut at its index.

### Hex editor and file search (`FileProofs`)

* `TypeCorrect`: the screen never shows more than the file. That the white
  space skipped at its beginning has an end (`SkippedType`) is shown by the
  least place that has none.
* `LogIsHistory`, `ReplacesTheShown`: the logs of all sessions, in the order
  things were done, tell the history of each byte that no two sessions replaced
  at once and the disk did not refuse, and what is replaced is what the
  screen shows. `EditInv` follows a byte through the three steps of a
  replacement: the one looked at is still there before the put and is what the
  logs leave there afterwards (`Looked`); each byte of the file is what the logs
  leave, or is put and not yet logged (`Unlogged`); and each row of a log is of
  one replacement (`Paired`), so that rows of several logs can be read in the
  order of these.
* `SearchFinds`: nothing is a result more often than it can match, and what is
  still there at the end, and was not kept from the search, is one exactly as
  often, for any tree, keywords, names and lines, whatever is removed meanwhile
  and whatever cannot be opened. `SearchInv` tells the nodes come upon
  so far, `V`, from the others: of a directory in `V` that is not open and can be
  read, what was not removed is in `V` as well; of an open one, what is still to be read is not
  (`Walked`). Nodes outside `V` are no results, nodes inside are as often as they
  match (`Counted`). With no directory left open, `V` is closed but for what is
  gone or in a directory that could not be read; and as what is gone takes with
  it all that was under it, `V` with these is the whole tree. The code compares
  lines in small letters with keywords in small letters; that this finds the
  lines that have a keyword, letters of both cases being alike, is `FoldedIsFound`. That a hex search misses no line with a plain key is a fact
  about digits (`HexFound`): `ToHex` gives the first byte of the key a sign the
  user does not type, and every other the digits he does (`Aligned`).
* `SearchTypeCorrect`: the types of the search, with the places a session can be
  at in `displayResults`.
* `ActsLogged`: what is opened or edited is what was listed under the number
  typed, and is in the log when the user is back at the menu. `ActsInv` adds
  that an edit is ahead of its entry from the moment the editor is called
  (`Pending`), and that the number is that of a result from the moment it was
  accepted.

### Deleted files and partitions (`DiskProofs`)

* `DatesRight`: every date is printed as it was written. The masks
  are division and remainder by powers of two; the lemma `DateRoundTrip` shows
  that the parts do not overlap.
* `NumbersRight`: a number of four or eight bytes that fits an int is read as it
  was written, and a larger double word is never taken for one that fits.
  `PlacesRight`: the root directory of FAT32 and the MFT of NTFS are where the
  format puts them, for every boot sector whose numbers of sectors and clusters
  fit an int. All hold for every even number of values of a byte, 256 with
  them. `Value` adds digits up from the highest (`top * Byte + digit`); that there
  is such a function is shown by the least length for which there is none
  (`ValueIs`). Products of variables are out of the solver's reach: what it needs
  of them are lemmas, that they are natural and distribute (`Products`) and how
  far a digit more takes a number (`DigitMore`). In `DWordOf` the sum the code
  makes and the number written meet.
* `DeletedFilesListed`, `NamesPrinted`: on an image with a regular directory, of
  any size, and no failed read, the FAT32 scan lists the deleted files it has
  passed, all, in order, with all pieces of their names. `FatInv` says that the
  pieces counted are those that belong to the entry they lead to (`Run`), and
  that the scan is never in the middle of a name at an entry (`Within`).
* `DeletedNamesListed`: on an NTFS image whose MFT ends, with any attributes, the
  names in deleted records that come before an attribute with a name of its own
  or with runs are listed, and no names of other records; where no such attribute
  is in the way they are listed in order, each once, and the number logged is
  theirs. `NtfsInv` says that the scan is at an attribute of a deleted record
  and on the way through it (`OnTheWay`), or has lost its way there with all
  names before listed (`AtAttribute`), and that those of the records before are
  (`NoNameMissed`). The number is right (`RightCount`) as the list is an
  injection of its numbers into the names.
* `ScanComesNearer`: every step of the scan of an MFT that ends, unless it has
  lost its way, makes a natural number smaller, `Ahead`, the records not yet left
  times more than the cells of the image, and of the record that is searched the
  cells not yet passed. This is half of `ScanEnds`: the scan does not go round
  in circles. The other half, that it goes on, is TLC's.
* `ScanTypeCorrect`: types of both scans on every image, sound or not. For
  FAT32 it needs that no more pieces are counted than entries were read
  (`FatTypes`), failed reads included, as a name is put together backwards by
  this count.
* `ChainsListed`: of a sound chain the EBRs are listed in its order, none twice,
  and none is missing when its walk is over, but for what failed reads and
  later entries take away. `SignedListed`: only signed records are listed, on
  any image, and `TableTypeCorrect` gives the types. They hold for tables, images and numbers of faults of any size.
  What the property says of lines printed is not enough to take a step:
  `TableInv` adds where the walk is. The last line `print_primary` has printed is
  that of the entry in whose chain it is, with EBRs of this entry only behind it
  (`OnItsWay`), and lines are in the order of the table (`InTableOrder`); while
  no read has failed the address is the link of the last line listed
  (`NextInChain`) and the record in hand the one at it (`ReadRight`). That no EBR
  comes twice (`NoneTwice`) needs the chain's end: the EBRs listed would be a set
  the chain never leaves, which a sound chain does not have.

### What is only model-checked

Liveness: `PortIsReleased`, `TalkersEnd`, `HandlerReturns`, `CancelledThreadsEnd`,
`SoundDiskEnds`, `ScanEnds`. The prover has neither fairness nor ENABLED. Of
`ReadAsWritten`, which the run checks as a whole, dates, numbers and places have
theorems of their own (`DatesRight`, `NumbersRight`, `PlacesRight`); numbers of
eight bytes whose upper half is not 0 are read wrong and claimed by none, and
times are printed wrong (section 7). All other properties of the passing runs
are stated by a theorem.

The library's induction theorems take an operator as a parameter, which none of
the provers here can instantiate. Where induction over data is needed, the least
element of a set does (`WFMin` with `NatLessThanWellFounded`).

## 7. What the code does that one would not expect

Seen while the models were made. Only the first has a run of its own; the models
contain the others marked *m*, and their properties say under which condition
the code is right.

* *m* Two sessions that open a case at the same time both get it
  (`case.cpp:109`, `:130`; run `case_race`).
* *m* A second process that starts clears the locks of cases in use
  (`case.cpp:48`).
* On the first start `clear_locks` reads a directory that is not there
  (`case.cpp:43`), before `./cases` is made.
* *m* Lines typed ahead are read as one command (`server.cpp:34`).
* *m* A command that waits for the answer of a client that has left tries
  again for ever, and keeps its case open; "server off" is not noticed there
  (`server.cpp:118`).
* *m* Who asks the client for help at a question is shown a prompt, and the
  next command is taken for the answer (`client.cpp:98`).
* *m* `__Exit__` that arrives joined to a prompt is displayed, not obeyed
  (`client.cpp:30`).
* *m* A client that leaves with an answer under way ends the server's process
  and all its sessions (`server.cpp:45`); so does one that leaves with its sniffer
  running, once a frame has been written to it (`sniff.cpp:411`).
* *m* A talker whose thread is slow to start works on the next client's socket
  (`server.cpp:96`).
* *m* "server off" does not wait: "server on" at once finds the port taken, and
  the listener for which binding fails switches the flag off for both
  (`server.cpp:84`). The `MAX_THREADS` entries for threads are never used again
  (`server.cpp:96`).
* *m* After another case is opened, the sniffer of the one before goes on and
  cannot be stopped (`case.cpp:139`). A stopped sniffer may log one more packet
  and raise an alarm while detection is off (`sniff.cpp:300`, `:540`).
* *m* The display may print a packet whose header is there and whose bytes are
  not, which is a null pointer, or whose time is what `malloc` left there
  (`sniff.cpp:285`, `:382`); the process dies. An IPv6 packet that is printed
  has four bytes turned, and is printed wrong every other time (`sniff.cpp:176`),
  in the text log if the display was first. A time is formatted from the one
  `struct tm` of the process: a row may have the time of another packet, of an
  alarm or of a log entry (`sniff.cpp:108`, `:393`, `case.cpp:166`).
* The raw file is given the bytes of two pointer variables, and of what is next
  to them on the stack, in place of the packets (`sniff.cpp:281`). What
  is buffered at the stop is lost (`sniff.cpp:355`), and the TCP header is looked for 20 headers, not 20 bytes, behind the IP header
  (`sniff.cpp:244`).
* *m* The delay of the detector is renewed by any packet, to whatever port
  (`sniff.cpp:53`).
* *m* Two copies to one name mix (`copy.cpp:39`), if the lock of the case was
  broken; blocks that could not be
  written are counted and logged as copied, and the next ones take their place
  (`copy.cpp:47`).
* *m* A chain of EBRs that leads back to itself is followed for ever
  (`disk.cpp:208`); beyond 2 TiB another sector is read (`disk.cpp:158`). The
  positions printed for logical partitions are relative to the wrong record
  (`disk.cpp:198`).
* *m* `print_extended` returns nothing when the chain has ended, and
  `print_primary` never (`disk.cpp:209`, `:291`). As compiled by `compile.sh`,
  without optimisation, the first returns 0: the next entry of the table is
  printed over the chain, which is then missing in the output.
* *m* The FAT32 scan goes on behind the end of the image
  (`deletedFilesFat32.cpp:265`), and prints one entry too many for each long
  name (`:283`). The masks for times do not fit together (`:201`).
* *m* Numbers of eight bytes are computed in an int (`deletedFiles.cpp:28`). A
  resident attribute is passed over without its name, and a non-resident one by
  its bare header: what is left of it is read as attributes, so that names behind
  it may be missed, or others listed that are none, and a negative length sends
  the scan back, where it may go round for ever
  (`deletedFilesNtfs.cpp:391-399`). The files counted are names (`:385`). A
  `deletedfiles` with no argument reads on behind the line, where a longer
  command may have been before (`cli.cpp:213`).
* *m* A name is found by its beginning only (`filesearch.cpp:54`, where `:50` says
  "contains"), and never by a capital in it, as only the keywords are put in small
  letters (`:140`). A directory that cannot be opened, for want of a descriptor
  too, is passed over in silence (`:35`), and so is a file (`:81`). A hex search
  compares digits, of which a byte below 16 has one and a byte of 128 or more
  eight: it finds bytes that are not there, and misses small ones
  (`hexedit.cpp:146`). The number of results is added to a pointer, not to the
  text (`filesearch.cpp:179`).
* *m* An edit is logged although the file could not be opened
  (`filesearch.cpp:242`), and displaying a directory, or a file that has been
  removed, has no end (`hexedit.cpp:81`).
* *m* White space at the beginning of a file moves what is displayed
  (`hexedit.cpp:66`), and a replacement is logged whether or not it was made
  (`hexedit.cpp:132`): at a position behind the end the byte FF is logged as the
  one replaced (`:123`).

## 8. What is not modelled

* The vendored libraries under `libraries/` (libpcap, and flex, bison and m4
  that build it; wxWidgets): other projects' code, unchanged and more than
  nine tenths of all lines here. What the tool expects of a library call is in
  the module that uses it. Of the tool's own 3600 lines the definitions stand
  for about two thirds; the rest are declarations, texts and widgets.
* The texts of commands and answers, and so all buffers that are too small for
  them (`show_log`, `alertScan`, the answer to "y/N").
* `print_geometry`, the navigator launcher, and the text of a packet's row:
  straight-line code that prints or starts another program.
* Failures of `getaddrinfo`, `pthread_create` and `malloc`; a server that has
  died, as its clients see it.
* Two capture threads in the middle of a packet at once: what they leave in the
  ring is undefined, and `PacketRing` ends where that begins (`mixed`).
* In `Server`: frames of the display written while the client has something to
  read, and two displays at a time.
* Memory: a dangling `state->currentCase` (a display goes on after the talker
  whose `Case` it writes by has returned; `Server` lets it write to the connection
  of that talker), an `in_buffer[-1]`, the table of
  threads after `MAX_THREADS` connections. Where the code reads what was never
  initialised, and the result matters, the model chooses any value
  (`NtfsScan!ReadHeader`, `Partitions!NextEntry`, `DeletedFiles!OpenDisk`).

## 9. Plan

The most important behaviour first:

1. done: sessions, locks and logs; the abstract lock; exclusion proved.
2. done: server and client, with the questions of commands; file navigator and
   its abstract history; sniffer and its recent packets; port scan detector.
3. done: copy, and its composition with the case sessions, proved; partitions,
   deleted files, decoding, search with its results, hex editor.
4. done: proofs of all safety properties and refinements of these parts.
5. open, models: a module that composes `Server` with `CaseSessions`, so that
   what a disconnect does to a case is seen from the client.
6. open, proofs: for `HandlerReturns` and `SoundDiskEnds` what `ScanComesNearer`
   says for NTFS. The EBRs ahead on a chain are not told by the state, so that
   their number has to be that of a least set the chain stays in.
