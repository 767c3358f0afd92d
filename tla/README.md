# A verification of the CSM programs (and their neighbours) in TLA+

The repository is a collection of small Windows programs written with MFC,
Winsock and the Win32 API.  The heart of it is **CSM**, a pair of programs for a
network of client machines: a server that keeps a list of the connected
machines, and a client that stays connected to it, registers its machine and
reports the web pages visited there.  Around it are a folder and a file
downloader, an updater for game installations, a black-list filter, database
converters and exercises with threads, dialogs and browsers.

This directory holds TLA+ modules for the parts whose behaviour is hard to
test, TLC configurations that check them on small instances, and proofs for
TLAPS.  The plan below says what has been built and what is still open.

    tlc -config listener.cfg MCCSMListener.tla      check a run
    tlapm CSMListenerProofs.tla                     check a module of proofs

## 1. The system

### Components

| component | state it keeps | operations | modelled |
|---|---|---|---|
| CSM server, `HaiNT3/CSMServerSimulator/Listener.cpp` | connection list `m_arrClientInfo`, listening socket, history rows of the window | Start, CleanUp, FD_ACCEPT / FD_READ / FD_CLOSE handlers, the commands CLIENTINFO, PING, WEB_HISTORY | `CSMListener` |
| CSM client, `HaiNT3/CSMClientSimulator/Connect.cpp` | `m_ConnSock`, `m_bConnect`, critical section `m_SyncConn`, start event | Start, the connection thread (PING every 3 s, reconnect), FD_READ / FD_CLOSE handlers, sending | `CSMConnect` |
| CSM client web history, `WebHistory.cpp` | `m_strLastID` per browser | Initialize until it succeeds, UpdateURL every 15 s | `WebHistory`; the sends and their failures in `CSMConnect` |
| popup copy of the server, `AnLNT/PopUpAdvertisement` | as the server | as the server, and a popup | no: an older copy |
| folder download server, `DownLoadFolder/Server` | temporary list files in the shared folder | a thread per connection: list a folder, send a file | the list in `FileListRequest`, a file in `FolderDownload` |
| folder download client, `DownLoadFolder/Client` | the files on the disk; the threads under way | a thread per click on Download and one per file | `FolderDownload` |
| cryptography, `DownLoadFolder/MaHoa` | a file on its way through blocks and buffers | encrypt and decrypt a list | `Cryptography` |
| AutoUpdate, `AnLNT/AutoUpdate` | report files and open handles; reference copies of games | a round every four hours: launchers, comparison, report, mail | `UpdateReport` |
| Dummy, `Source/Dummy` | black list table, list file and time stamp | ask, download, decode, import | `BlackListUpdate` |
| MultiThread exercises | a manual-reset event, a list box | threads that wait, set, append | `ManualResetEvent` |
| file download, `DownloadFile/{Client,Server}` | as the folder downloader, for one file | the same | no: an earlier state of the folder downloader, whose client thread does nothing |
| ConvertDatabase | two databases | convert tables, replace users | no: SQL statements an operator runs once; nothing is promised when one fails |
| FileAuthentication | signature of a file | sign, verify | no: MD5 over a few blocks, compared in one call |
| HTTP downloader | WinINet handles | download a file | no: an earlier copy of Dummy's download loop |
| QuanLy, trackers, browsers, dialogs, file utilities, AutoUpdate's launchers | forms, windows | one call each | no: no state between calls, or the state is another program's |
| SQLite, pugixml, XUnzip, diskid32, md5, COM wrappers, wizard code | | | no: third-party or generated |

`PROJECT.json` lists every component with its sources and the reason when it is
not modelled.

### Interactions

* **Client and server** talk over TCP in messages of a 16-byte header
  (command, parameter, reserved, data length) and data.  The first message of a
  connection must be CLIENTINFO; the server closes a connection that sends
  anything else first (`Listener.cpp:425`).
* **Server**: one thread.  `WSAAsyncSelect` makes Winsock post WM_SOCKET
  messages to the window; a message carries a SOCKET *value*, and the handler
  acts on the connection that has the value when the message is dispatched.
* **Client**: two threads on the same object.  The connection thread owns
  connecting and PING.  The UI thread handles WM_SOCKET messages and sends the
  history.  Both call SendMsgToServer and CloseConnection.  `m_SyncConn`
  guards SendData and nothing else.
* **File list server**: one thread per connection and no lock.  The threads meet
  in the file system: their temporary files are named after the time in
  milliseconds, and the share modes of CreateFile decide who gets a file.
* **Folder downloader**: a click starts a folder thread, which starts a thread
  per file; each of these talks to a thread of the server over a connection of
  its own.  Rounds overlap freely, and meet in the files on the client's disk.
  (The list control they report to is guarded by a mutex that does not exclude,
  `MyMutex.cpp:27`; nothing is decided by what it shows.)
* **AutoUpdate**: the comparing library and the mailing program share nothing
  but the *existence* of report files.  A later round meets the files of an
  earlier one and the handles that one has not closed.
* **Dummy**: one thread, but a message box runs a message loop, so the timer
  starts an update inside an update.  The table is shared with an administrator.
* **Web history**: the browser changes the database while the client reads it.
* **MultiThread**: rounds share one event and one list box; a line is added by
  a message that the window's thread must answer.

### What is hard, and what correct means

* **SOCKET values are reused.**  They stay in the server's list and in queued
  messages after the connection is gone.  The list must remain unambiguous
  (`HostNameIsKey`, `ConnSockIsKey`) and lead to the machine's newest
  connection (`LatestRegistrationWins`).
* **TCP cuts messages anywhere.**  A handler must stay at a frame boundary or
  close (`FramingKept`), and must act for the connection that sent the
  message and no other: for an odd DataLen ProcessRead closes the connection
  but does not return, and goes on with the SOCKET value it has closed, for
  which it must then do nothing (`ActsForSender`).
* **Winsock posts FD_CLOSE once.**  Every connection whose peer has left must
  still be closed (`GoneIsClosed`).
* **Two threads share a connection.**  Messages must not be mixed
  (`WholeUnlessFailed`), the critical section must be left on every path
  (`LockOwner`), and closing on one thread while the other connects must not
  leave a connection that is pinged for good but was never registered
  (`BelievedIsRegistered`).
* **The server comes and goes.**  The client must be connected again, again and
  again (`Reconnects`).

* **Threads share temporary files.**  The server ignores whether it could list
  and encrypt, and sends what it finds.  That must be a whole list
  (`WholeListSent`) that somebody asked for in that millisecond
  (`SentIsAskedFor`), and the files must go (`NothingLeft`).
* **A file's time stands for its content.**  The client compares time and size
  only; lists grow old, several threads fetch one file, connections break,
  both programs are restarted.  A file that would be skipped must be the
  server's (`SkippedIsCurrent`), and every other one must arrive (`Arrives`).
* **Blocks, buffers and filler.**  Whatever was cut wherever, decrypting must
  give a beginning of the list (`PrefixOnly`), and all of it when nothing was
  cut (`RoundTrip`).
* **A report file outlives its round.**  The mail must tell the truth about a
  comparison that succeeded (`MailTells`), must not announce "no update" for one
  that broke off (`BreakIsNews`), and one bad game must not stop the others
  (`Compared`).
* **An import is many transactions.**  It must end with the rows of its list
  (`ImportedWhole`), never delete an address of that list
  (`DeletesOnlyDropped`), and make good what failures lost (`Heals`).
* **Ids of visits are used again.**  Visits must be told once and in order
  (`ToldInOrder`), and none be passed over (`NothingSkipped`, `VisitHandled`).
* **A reset event is a lost signal.**  No thread may wait for ever
  (`RoundEnds`), and a round that runs alone must be right (`BuyAfterLoan`,
  `ListIsRound`).

## 2. Plan

Done, in this order:

1. `CSMListener`: modelled, checked, all its safety properties proved, and
   proved to implement `ClientRegistry`.
2. `CSMConnect`: modelled, checked, all its safety properties proved.
3. `FileListRequest`: modelled, checked, all its properties proved.
4. `FolderDownload` and `Cryptography`: modelled, checked, all their safety
   properties proved.
5. `UpdateReport`: modelled, checked, all its safety properties proved.
6. `BlackListUpdate`, `WebHistory`, `ManualResetEvent`: modelled, checked, all
   their safety properties and the action property of the first proved.

Considered and not built:

* A module that composes `CSMListener` and `CSMConnect`.  Each is already
  checked against everything the other can send: the listener gets every
  message, cut anywhere, and the client a server that comes, goes and sends.
  The product is out of TLC's reach, and what the two must agree on, a
  CLIENTINFO first on every connection, is `BelievedIsRegistered` on the one
  side and the guard of `ProcessCmd` on the other.
* The progress column of the folder downloader: nothing reads it but the user.
* ConvertDatabase and FileAuthentication: see the table above.

Every property a passing run checks is now stated by a theorem, except the
liveness properties, which stay with TLC (section 5).  Still open is what is
beyond those properties: abstract specifications for other components than the
listener, in the way `ClientRegistry` is one.

## 3. Modules

### CSMListener

| in the module | in the code |
|---|---|
| `m_arrClientInfo` | the array of CLIENT_INFO; entry = SOCKET value, host name (its IP, version and date move with it), Status |
| `listening` | what Start made of `m_ListenSock` |
| `queue`, `ui` | the thread's WM_SOCKET messages; the place inside ProcessSocketMsg between the read of a header, the read of its data and the command, with the SOCKET value and the header; its `from` is a history component, the connection the header was read from |
| `m_lstWebHistory` | rows of the window, by the connection they came from |
| `sockets`, `conn`, `acceptArmed` | Winsock: the connection a SOCKET value denotes, the bytes on the wire and arrived, which notification may be posted again |
| `lastReg` | history variable: the connection on which a machine last registered |

`Start`, `Stop` (OnDestroy with CleanUp) and the steps of `Dispatch` are the
program: `OnAccept`, `OnClose`, `OnRead` (ProcessRead up to the header checks),
`RecvData`, `ProcessCmd`.  A read is cut in three steps because bytes go on
arriving while the handler runs.  `Peer*`, `Arrive` and `Post*` are the network:
FD_READ is re-enabled by a call of recv, FD_CLOSE is posted once, after the
data.  A message is two pieces of header and, if it has any, one of data, so it
can be cut inside the header and before the data; DataLen is negative, zero,
even or odd, the four classes ProcessRead tells apart.  An odd one is the only
path on which a handler goes on after it has closed its connection: `OddLength`
closes and leaves the handler about to read data from a SOCKET value that
denotes nothing, and `DataOfClosed` is the read that fails (ENOTSOCK, with the
error code cleared) and ends the handler.  No other step of the UI thread can
come between, so the value is not reused before that.

### ClientRegistry, CSMListenerRefinement

What the list promises, with no SOCKET values, messages, queue or order of
entries: a set of listed machines, the connection each is reached on, the life
of each connection, the rows shown.  Its one concession to the code is that an
accepted connection may inherit the place of a listed machine whose connection
has ended (`Accept`): a reused SOCKET value does that.  The refinement mapping
reads an entry's SOCKET value as the connection it denotes at the moment
(`Reached`), so a step of Winsock alone - accepting on a reused value, closing -
changes the registry although the list is untouched.

### CSMConnect

| in the module | in the code |
|---|---|
| `m_ConnSock`, `m_bConnect` | the two shared members, read and written without a lock |
| `m_SyncConn` | the critical section, by its owner |
| `pc`, `msg`, `part` | where each thread is, the command it is about to send, and the part of the message `send` takes next |
| `queue` | the UI thread's WM_SOCKET messages; the handler does not use their socket, so they carry none |
| `sock`, `gone`, `posted` | Winsock: the state of a SOCKET value, whether the server has left it, whether FD_CLOSE was posted |
| `stream`, `info` | what the server has received on it: at a message boundary, inside a message of a thread, or broken; whether CLIENTINFO arrived whole |
| `callFailed` | history variable: a send, WSAAsyncSelect or GetComputerName has failed |

One action per access to the shared members: CloseConnection is `Shutdown`,
`Closesocket`, `Invalidate`, `Disconnected`; CreateConnection is `CreateSocket`,
`KeepSocket` (m_ConnSock was valid), `Connect`, `Select`, `Connected` and their
failures; MonitorConnection's three tests of m_bConnect are `Monitor`, `Check`
and `Recheck`.  SendData takes a message in two parts, each sent on the
connection `m_ConnSock` denotes at that moment, which is how a message can
continue on another connection.  UpdateURL sends any number of visits and goes
on after a failed send.  ProcessRead closes for an odd DataLen and goes on to
read the data (`RecvOdd`), by then perhaps from a new connection, which an error
then closes as well.

A SOCKET value that was overwritten without being closed is leaked; real tables
hold thousands, so `Fresh` gives out a leaked value again only when no other is
left.

### FileListRequest

| in the module | in the code |
|---|---|
| `pc`, `asked` | where the thread of each connection is in FolderDownloadingThreadFunction and ProcessFileListRequest, and the folder name it receives |
| `name`, `now` | the time the thread formed its two paths from, and GetLocalTime |
| `exists`, `content` | the temporary files; a file is the folder whose entries it holds and how far they were written, encrypted or not |
| `writer`, `readers` | the open handles, with the share modes 0 and FILE_SHARE_READ |
| `sent` | what the peer has received: nothing, size 0, or a list |
| `failed` | history variable: a ReadFile or WriteFile of the encryption has failed |

One action per call that another thread's call can come before or after:
`StartList` and `FinishList` are ApproveFolderToList, `OpenInput`, `OpenOutput`
and `Encrypt` (or their failures) are CEncryption::ExecuteFile, `OpenEncrypted`
to `SendFails` are CreateFile and SendFile, and the two deletes follow.  A
failure whose result ProcessFileListRequest ignores goes on like a success.  A
reading handle that SendFile leaks when the size is 0 or cannot be sent stays in
`readers` for good.

### FolderDownload

| in the module | in the code |
|---|---|
| `ver`, `held` | the server's files by version, which stands for content and last-write time alike; files it has a leaked handle of |
| `local` | the client's files: their time, the version their bytes are from, how many chunks are there |
| `list`, `todo`, `pending` | of each folder thread: the decrypted list, the entries CompareTwoInfoFIle has still to see, `lstInfoFile` |
| `thread` | the file threads: waiting for an answer, receiving, about to set the time, spinning on a closed connection, waiting for a server that forgot them |
| `conn` | what the server's thread sends on their connection |

`ReadList` to `NoThread` are the folder thread.  `ServerOpens` to `ServerStops`
are ProcessDownloadFile and SendFile, with the two ways a handle is leaked (size
0, size not sent) and the accept loop that forgets a connection.  `CreateFile` to
`SetFileTime` are ReceiveFile and SetLastWriteModified; `ConnectionEnds` is
ReceiveFileData with recv returning 0, which it takes for no error.  A file
that the server has open cannot be changed (FILE_SHARE_READ), one that the
client has open cannot be opened again (share mode 0); both matter for the
properties.  A list may be cut, at the worst inside its last time (`Cut`); that
it is nothing worse is what `Cryptography` and `FileListRequest` show.

### Cryptography

| in the module | in the code |
|---|---|
| `list` | the file to encrypt as blocks, the last one filled up with `pad` bytes |
| `encrypting`, `decrypting` | ExecuteFile on either side: the place in the input, the buffer, the turn of the loop, the encrypted block before (m_pcPreviousBlock) |
| `encrypted`, `received`, `decrypted` | the output of one side, what of it arrives, the output of the other; `torn` is a part of a block at the end |

Bytes, exclusive or, key, block length and buffer length are parameters.  One
turn of the loop in ExecuteManyBlocks is one action, because what is chained is
a value that the turn itself overwrites in its buffer.

### UpdateReport

| in the module | in the code |
|---|---|
| `source`, `cc` | the files of each game and of its reference copy, changed by anybody at any time |
| `report`, `held` | the report files with the files they name, and the games whose report this process has open and will never close |
| `stage`, `todo`, `cmp` | the place in AutoDetectGameUpdate and CGameSourceCompare::Compare: games still to come, files still to list, m_bHasUpdate, what is in the temporary file |
| `outcome`, `mail` | how each comparison of the round ended (the code only logs it), and what CheckGameHasUpdate tells the mail |
| `disturbed`, `calm` | history: games whose files changed, could not be read or not be listed since their comparison began; nothing fails any more |

A comparison that returns early leaves its handles open (`Abandon`): the report
is opened with share mode 0, so the next round of the same process is `Refused`.
A directory walk that stops early is not told from one that ended
(`ListingStops`), and a file that cannot be opened counts as modified
(`Unreadable`).  The loop runner's delete[] of what new has made is a restart at
the end of a round, one of the points at which `Restart` may happen anyway.

### BlackListUpdate

| in the module | in the code |
|---|---|
| `list` | the lists the master has published |
| `m_stLastModifyBlackList`, `file` | the time of the list asked for last, 0 in a new process; wblistex.vcs and its time |
| `info`, `own` | blacklisttb: the rows with AddedBy = 3, and the administrator's |
| `stack` | the calls of UpdateBlackList; all but the innermost have a message box open |
| `imported`, `ownOnce`, `calm` | history: the lines of the last import that succeeded, addresses the administrator has ever had, nothing fails any more |

Each statement of CBlackListReader is a transaction of its own and an action:
`MarkInactive`, `ProcessURL` per line, `RemoveInactiveURL`.  `CheckURLExist` is a
LIKE, so a line of the list can match other addresses than itself (`Matches`).

### WebHistory

| in the module | in the code |
|---|---|
| `m_bInit`, `m_strLastID`, `strPreURL` | the members and the local of UpdateURL, which holds a date |
| `inPlace`, `rows` | whether the browser's own file or a copy is read, and the rows of the query still to be handled |
| `visits`, `live`, `now`, `hidden` | the browser: visits made, those in its database, the clock; visits whose id had already been passed when they got it |
| `start`, `told`, `skipped` | history: visits before GetLastID, rows sent, rows not sent |

SQLite gives a new row the highest id in the table plus one, so deleting the
newest rows brings ids back.  A copy made while the browser runs may lack its newest rows
(`Snapshot`).  Firefox keeps the date with the address and not with the visit
(`DateOf`).  The client always asks for Chrome's older file layout, since
InitializeForChrome is only called with TRUE; the layout does not show here.

### ManualResetEvent

| in the module | in the code |
|---|---|
| `ui`, `round` | the click handler (empty the list, reset the event, create the loan thread) and the clicks so far |
| `m_myEvent`, `pc`, `added` | the event, the three threads of each round, the lines each has added |
| `m_list` | the list box, by the thread a line is from |
| `crowded` | history: rounds that met threads of another round |

AddString from a thread is a message to the window, so it waits while the
handler runs (`ui = "idle"`); the event's calls do not.

## 4. Runs

All runs use small sets of model values.  Deadlock is checked where the system
never stops: the client, the folder downloader, the update tool, the black
list and the web history, all of which ask again and again.  It is not checked
for the listener, the list server, one encrypted list and the exercise, which
may rightly come to an end.

| run | instance | asks |
|---|---|---|
| `listener` | 2 machines, 2 connections, 2 SOCKET values, every message and every ill-formed header, 1 message per connection | `TypeOK`, `HostNameIsKey`, `ConnSockIsKey`, `LatestRegistrationWins`, `GoneIsClosed` |
| `listener_msgs` | 1 machine, 2 connections, 2 SOCKET values, every message, 2 messages | `FramingKept`, `ActsForSender`, `ImplementsRegistry` |
| `connect` | 1 SOCKET value, 2 queued messages, a server that sends | `TypeOK`, `LockOwner`, `WholeUnlessFailed`, `BelievedIsRegistered`, `Reconnects` |
| `filelist` | 3 requests, 2 directories and a name that is none, 2 milliseconds | `TypeOK`, `WholeListSent`, `SentIsAskedFor`, `NothingLeft` |
| `download` | 1 file, 1 folder thread at a time, 2 file threads, 3 versions: two of the same size and an empty one | `TypeOK`, `SkippedIsCurrent`, `Arrives` |
| `crypto` | every list of up to 3 blocks of 2 bits, buffers of 2 blocks | `TypeOK`, `PrefixOnly`, `RoundTrip` |
| `report` | 2 games, one of whose files is exempt, 2 contents | `TypeOK`, `MailTells`, `BreakIsNews`, `ReportNames`, `Compared` |
| `blacklist` | 2 lists over 3 addresses, one a pattern for another, 1 nested update | `TypeOK`, `ImportedWhole`, `DeletesOnlyDropped`, `Heals` |
| `history` | 3 visits to 2 addresses in 2 seconds, both browsers | `TypeOK`, `ToldInOrder`, `NothingSkipped`, `VisitHandled` |
| `event` | 2 clicks, 1 line per thread | `EventTypeOK`, `BuyAfterLoan`, `ListIsRound`, `RoundEnds` |
| `listener_takeover`, `connect_whole` | as the runs of their modules | what a comment of the code says, and the code does not keep |

**Bounds.**  All safety properties are proved for every value of the constants;
the instances serve to find mistakes cheaply, to check liveness, and to show
that the cases occur.

* *Listener.*  Two connections over two SOCKET values are the least for which a
  value is reused while another connection is open: a machine can register,
  leave and return, and meet its own old entry or another machine's.  One
  message per connection is enough where only the list matters; two are needed
  to lose a frame or to show a row after registering.
* *Client.*  With one SOCKET value every new connection reuses the value of the
  old one.  The FD_CLOSE of a replaced connection and half a message that is
  continued on another connection still occur, since the socket messages name
  no socket and `send` reads `m_ConnSock` afresh.
* *List server.*  Three requests in one millisecond let one thread write,
  another read and a third delete the same file; the second millisecond lets a
  path outlive its time, and the name that is no directory sends a thread on
  without a list of its own.
* *Folder download.*  Two threads can fetch the same file, one of them with the
  time of an older list.  Two versions of the same size are what a comparison by
  time and size could confuse; an empty one is answered like a missing file.
* *Cryptography.*  Three blocks in buffers of two: a full buffer, a short last
  one, and a chain across the two.
* *Reports.*  Two games, so that one can fail and the other must go on; the
  rounds are unbounded.
* *Black list.*  Two lists, so that an import meets rows of another one, and an
  update inside another.  *History.*  Three visits, the least for which an id is
  used again behind a row that was told.  *Exercise.*  Two rounds overlap; one
  line per thread tells a whole round from a part.

**What the violations show.**

* `TakenOverIsDisconnected` - Status is never set after the constructor, so
  the check for an active machine never refuses and a live connection's entry
  is taken over ("it was disconnected", `Listener.cpp:287`).
* `WholeMessages` - SendMsgToServer unlocks before it closes; the other thread
  sends behind half a message ("lock socket: multi-thread call send",
  `Connect.cpp:545`).

Some behaviour that the models contain has no run of its own, because no line of
the repository promises otherwise strictly enough: the CLIENTINFO of a machine
that was given the SOCKET value of a listed one is ignored, and its messages are
shown under the other's name (`Listener.cpp:417`); a queued FD_CLOSE closes the
connection that got the same SOCKET value (`Listener.cpp:526`), or, in the
client, the successor of a replaced connection (`Connect.cpp:112`); a file
thread spins for ever on a connection that ended early
(`DownloadFileSocket.cpp:90`).  The properties name these cases where they are
exceptions.  Others are excepted in the same way, so that what happens in them is
modelled but not judged: file threads whose accepted connection no server thread
took up (`ServerDlg.cpp:163`), the mail about a game whose files changed while
they were compared (`FolderCompare.cpp:67`), what an import makes of rows that a
second one, run from its message box, has changed
(`MySQLDataAccessHelper.cpp:64`), and the contents of the list when two rounds
of the exercise overlap.  A truncated list (`HTTPDownloader.cpp:116`) is the list
that an import is measured against; only `Heals` says that its damage is repaired.

**Fairness.**

* *Listener*: the message loop dispatches while a message is queued, and Winsock
  posts what it owes; peers and the user promise nothing.
* *Client*: both threads run (weak fairness; the connection thread's timer never
  stops); Lock is strongly fair per thread, since the threads want the critical
  section at most once in 3 s and in 15 s and hold it for one message;
  UpdateURL's loop ends, since a history has finitely many visits; Winsock
  reports a lost connection; and socket() and connect() succeed if tried often
  enough - without that no client could promise to reconnect.  `Reconnects`
  speaks of holding a connection to a living server.  It does not say that
  `m_bConnect` is TRUE then: when a close by the UI thread is overtaken by a
  reconnection, its last statement (`Connect.cpp:448`) leaves a connected socket
  with m_bConnect FALSE, and connect() fails on it every 3 s until the server or
  a failed send closes it.
* *Folder download*: threads run, connections are served, and the user clicks
  again and again - nothing retries by itself.  A thread a round wants to start
  is started sooner or later although other rounds take threads meanwhile
  (strong fairness).  `Arrives` speaks of the time when nothing fails any more.
* *Reports*: the tool is one thread with an endless loop, and the programs it
  waits for end (weak fairness of a round's steps).
* *Black list*: the timer is never killed and the thread runs; `Heals` starts
  when nothing fails any more, no message box is open and one list is still to
  be published.
* *History*: the timer is never killed, and the browser's file can be read again
  and again.
* *Exercise*: threads run and a click handler that has begun ends; clicks are
  finitely many, since a user who clicked for ever could reset the event each
  time before a waiting thread runs.

## 5. Proofs

For every value of the constants, under the named assumptions of the modules
(`ListenerAssumption`, `ConnectAssumption`, `RequestAssumption`,
`DownloadAssumption`, `CryptoAssumption`, `ReportAssumption`,
`BlackListAssumption`, `HistoryAssumption`, `EventAssumption`: the special values
are none of the ordinary ones, bounds are natural numbers, exclusive or undoes
itself, an address is LIKE itself, there is a first second, and a thread adds at
least one line).  Where an invariant had to be strengthened, the strengthening
was first checked by TLC as an invariant of the run's instance.

`CSMListenerProofs`

* `TypeCorrect`: `[](TypeOK /\ SocketsSound)`.  TypeOK alone is not inductive:
  OnMsgClientInfo writes `sockets[ui.sock]` into `lastReg`, so ProcessCmd must be
  known to work on an open connection, although ProcessRead may be about to read
  from one it has closed.  `SocketsSound` is ActsForSender and what it rests on:
  the SOCKET values in the table denote distinct, open connections, and only
  accepted connections have registered.  One lemma per handler; `ConnUpdate`,
  `ConnectionFields`, `CloseConnectionSound`, `ReceiveSound`, `CommandIsOpen` and
  `AddNewClientSound` hold what several handlers need.
* `SenderCorrect`: `[]ActsForSender`, from the same invariant.
* `KeysCorrect`: `[](HostNameIsKey /\ ConnSockIsKey)` and
  `LatestRegistrationCorrect`: `[]LatestRegistrationWins`.  The three are
  inductive together, relative to TypeCorrect's invariant: a registration
  writes the sender's SOCKET value only when no entry holds it, and only into
  the sender's own entry, so it cannot duplicate a key or take another
  machine's newest connection.

* `FramingCorrect`: `[]FramingKept`.  FramingKept looks at the first unread piece
  of a connection; when that is consumed, the next one becomes the first, about
  which it says nothing.  `FrameInv` speaks of all unread pieces: each follows
  the one before as in a message (`Framed`), the first is what the handler is
  about to read, and as long as the peer is there the last one completes its
  message, so that the next message is put behind a whole one.  A peer that is
  `gone` may have left part of a message but sends nothing behind it.  A handler
  that does not find what it expects closes the connection, or leaves one on
  which nothing is left to read.
* `ListenerImplementsRegistry`: `Spec => ImplementsRegistry`.  `StepEffect` sorts
  the steps of the listener by their effect on the list and the SOCKET table
  (none, accept, close, register, show a row, stop); one lemma per effect maps
  it to a step of the registry.  The invariants above are what the mapping needs:
  HostNameIsKey and ConnSockIsKey make an entry the only one of its machine and
  its value, SocketsSound makes SOCKET values denote distinct open connections.

`CSMConnectProofs`

* `LockCorrect`: `[](TypeOK /\ LockOwner)`.  The invariant adds `StartFirst`:
  before Start has run there is no connection thread, so that creating it
  cannot take a thread out of SendData.  One lemma for what a thread does
  inside SendMsgToServer (`SendStep`), one for everything else (`OtherStep`).
  `ConnectTypeCorrect` states its first half.
* `WholeUnlessFailedCorrect`: `[]WholeUnlessFailed`, from the invariant `Whole`,
  which holds while no call has failed: the connection thread is on no closing
  path; a thread with half a message out is still in SendData; the UI thread's
  connection stays up meanwhile, because only the connection thread could
  replace it; half a message is on the current connection as long as that is
  up, and on no other.  With LockOwner the other thread cannot be between its
  two parts at the same time.
* `BelievedIsRegisteredCorrect`: `[]BelievedIsRegistered`, from `RegInv`: while
  the connection thread connects, m_bConnect is FALSE; what it has closed itself
  is not up; and a connection that is up while m_bConnect is TRUE is registered
  unless CLIENTINFO is still to be sent or has failed and the connection is
  about to be closed for it.  Closing by the UI thread at any point can only make
  the premises false.

`FileListRequestProofs`

* `RequestTypeCorrect`, `WholeListCorrect`, `AskedForCorrect`,
  `NothingLeftCorrect`: `[]TypeOK`, `[]WholeListSent`, `[]SentIsAskedFor`,
  `[]NothingLeft`.  One invariant carries all four.  `Handles`: an open file is
  on the disk, a writer is alone on it, and every handle belongs to a thread
  that is at work on the file or has leaked it.  `Disk`: a file without a
  writer is whole unless the disk failed, and lists a folder that a request of
  its millisecond asked for; with Handles this holds for whatever a thread
  reads, its own file or not.  `Responsible`: every file has a thread that is
  still to delete it or has failed; when DeleteFile fails, Handles names that
  thread, since whoever has the file open is not yet at its own delete.

`CryptographyProofs`

* `CryptographyTypes`, `PrefixCorrect`, `RoundTripCorrect`: `[]TypeOK`,
  `[]PrefixOnly`, `[]RoundTrip`.  The invariant says of each side how the
  blocks written, the turns made in the buffer and the rest of the input fit
  together; the encrypted file is *some* file whose i-th block is the
  encryption of the list's i-th block chained to the block before (`Chained`),
  so no recursive definition of the cipher is needed.  That one turn undoes the
  other is a lemma, from two reversals and the assumption about exclusive or.

`FolderDownloadProofs`

* `DownloadTypes`, `SkippedCorrect`: `[]TypeOK`, `[]SkippedIsCurrent`.  A file
  gets its time last, and from a list that is older than what it fetched: a
  list is never newer than the files (`ListInv`), nor is the time a thread was
  given newer than the version its connection carries (`ThreadInv`); one thread
  at a time writes a file, which has no time meanwhile and holds what that
  thread's connection carries (`WriteInv`).  So a file with the time of a version
  is complete and at least as new (`FileInv`), and if the server still has that
  version it is that version.

`AnLNTProofs`, about `UpdateReport`

* `ReportTypes`, `MailCorrect`, `BreakCorrect`, `NamesCorrect`: `[]TypeOK`,
  `[]MailTells`, `[]BreakIsNews`, `[]ReportNames`.  The mail is read off the
  report files (`MailInv`), so the argument is about them: what a comparison has
  found so far is so, and nothing that counts has been passed over (`FoundInv`,
  `NamedInv`); its report is there and open to nobody else (`OpenInv`); nothing
  touches the report of a game whose comparison has ended until the next round
  (`FreshInv`); and what it then says is `ReportInv`.

`AnLNTProofs`, about `ManualResetEvent`

* `EventTypes`, `BuyAfterLoanCorrect`, `ListCorrect`: `[]EventTypeOK`,
  `[]BuyAfterLoan`, `[]ListIsRound`.  Even the type needs to know where a thread
  is, since `added` is bounded by the loop alone (`Counted`), and that the
  buyers of a round are created in turn by its loan thread (`Staged`).  For the
  other two the rounds must be told apart: one that was not crowded has ended
  before the next click (`PastInv`); a click that meets nobody starts from an
  empty list and a reset event (`ClickInv`); and from then on the round has the
  event and the list to itself until another click meets it (`AloneInv`), the
  list holding exactly what its threads have added, loans first (`OwnList`).
  The number of lines per buyer is a cardinality, so adding one line is a lemma
  about finite sets.

`BlackListUpdateProofs`

* `TypeCorrect`, `ImportCorrect`, `DeletesCorrect`: `[]TypeOK`,
  `[]ImportedWhole`, `DeletesOnlyDropped`.  The first two are inductive together:
  the loop over the lines keeps, for the lines done so far, what ImportedWhole
  says of all of them - each in force, no row that one of them matches inactive,
  every active row there for one of them (`LoopInv`).  Marking makes it true of
  no lines, a line adds itself, and what RemoveInactiveURL leaves then covers the
  list.  A call whose user was shown a message box may have met another import,
  so LoopInv is not claimed for it; `StackInv` says that every call that nests
  others is one of these.  The deletion theorem follows from the same invariant:
  a row that RemoveInactiveURL deletes is inactive, so no line done matches it,
  and all lines are done.

`WebHistoryProofs`

* `TypeCorrect`, `ToldCorrect`, `NothingIsSkipped`: `[]TypeOK`, `[]ToldInOrder`,
  `[]NothingSkipped`.  The program compares ids, which come back; the properties
  speak of visits, which do not.  `IdsRise` connects them: a visit that is still
  in the database has a smaller id than every later one, because a new row gets
  the highest id there plus one.  So the rows of a query, ordered by id, are
  ordered in time, and all lie behind what was told (`RowsInOrder`).  For
  NothingSkipped, no visit lies between the rows of the query without being one
  of them, even if a copy lacks the newest rows (`RowsComplete`), and a date
  with which a row is compared was told with another (`DatesTold`).  The highest
  id and the ordered rows are CHOOSE in the model; that there is such an id and
  such an order is proved first, by well-founded minima and cardinalities.

Only model-checked: liveness (`GoneIsClosed`, `Reconnects`, `Arrives`,
`Compared`, `Heals`, `VisitHandled`, `RoundEnds`), which needs ENABLED and
fairness and is out of the prover's reach.  The two runs that expect a violation
are about statements that are false.

## 6. Not modelled, and abstracted

Most of the repository's lines are third-party sources, COM wrappers, wizard
output and older copies of the same programs (section 1), so the modules stand
for a small share of all lines and for most of what has state and actors.

CSM

* FD_ACCEPT with an error, which closes the listening socket; when Winsock
  reports one is outside the code.  Errors of FD_READ and FD_CLOSE lead to the
  close that is modelled.
* The server's SendMsgToClient and SendData and the client's Stop have no
  caller.  ProcessCmd of the client does nothing with any message.
* The check for duplicate machines reads Status and IP; no reachable state has
  a Status other than INIT_INFO, so its refusing branch is written down
  (`Active`) and never taken.
* Time.  Timers fire at any moment, retries of SendData and RecvData are one
  nondeterministic failure.  The program's only promises about time are the two
  periods.
* Memory exhaustion (`new` returning NULL, `Connect.cpp:536`) leads to the same
  close as a failed send.

Folder downloader

* The list server's message boxes stop a thread for as long as they are open,
  which a thread that takes no step also does.  A walk that could not read a
  subfolder, or a failed write of a list's line, counts as a finished list: the
  code does not tell either.  Files are named by date and time, so names never
  repeat as long as nobody turns the clock back.
* The client's list control with its progress column, and the mutex around it:
  nothing is decided by what they hold.
* Of the cryptography library, SetKey and the functions for a single buffer,
  which nothing calls.

AutoUpdate

* The text of reports and mail, the log, and the program that sends the mail.
  FolderCloner and FolderRemoving have no caller.  The launchers drive windows of
  other companies' programs; here they are what changes files at any time.

Dummy

* DummyUpdater, which replaces the program by what it has unzipped; the ping;
  the registration window; WinINet handles that an error path leaks.

MultiThread

* Demo1, in which the same three threads share a critical section, and the
  classes around the Win32 objects, which are single calls.

Everywhere

* Text: names, versions, addresses and rows are compared, never read.  A
  machine's name stands for its IP too.
