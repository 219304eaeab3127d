# Siege Studio: specifications

TLA+ specifications of the concurrent parts of this repository, the
configurations with which TLC checks them on small instances, and theorems
about them that TLAPS checks for every value of the constants. The
specifications are translated from the source; each definition's lines are in
`PROJECT.json` under `map`.

- [1 The system](#1-the-system): its parts, what they keep and how they interact
- [2 The modules](#2-the-modules): which module models what, and how
- [3 The runs](#3-the-runs): what TLC checks, on which instances, and why these
- [4 Fairness](#4-fairness)
- [5 The proofs](#5-the-proofs)
- [6 What the models show](#6-what-the-models-show-of-the-code): where the code does not keep what one would expect
- [7 What is not modelled](#7-what-is-not-modelled)
- [8 Plan](#8-plan)

To check a run: `tlc -config <cfg> <module>`, with the pairs of section 3. To
check the proofs: `tlapm RpcTransportProofs.tla`, and so on.

## 1 The system

Siege Studio is a Windows program to explore and launch old games. It is a
small executable that loads a core module, the core loads modules by naming
convention (content: file formats; presentation: views; extensions: knowledge
of games; installation: what is on a disc), and tools for archives and shapes
are programs of their own. One extension is different: *wsock-over-zero-tier*
is a replacement for the Windows socket library that games load without
knowing, so that they can play over a virtual network. It is where the
repository's own concurrency is: several processes, several threads of each,
shared memory, messages, time-outs and worker threads that imitate what the
Windows kernel does. The rest of the program is mostly windows; what runs in
the background of them is modelled where it has state of its own.

### 1.1 Winsock over zero-tier

Paths are relative to `src/siege-modules/extension/wsock-over-zero-tier/src`.

```
   game process                                   server process (one thread)
   ------------------------------                 -----------------------------
   program's threads                              window_proc
     | WSARecvFrom, WSAEventSelect,                 | finds the view of a section
     | connect, recv, closesocket ...               | runs the backend's call
     v                                              | writes results, answers
   client shared:                                   v
     contexts, select worker,                     backend: zero-tier or ws2_32
     overlapped worker                               sockets, select
     |                                               ^
     v      section name (SendMessageTimeout)        |
   RPC client ---------------------------------------+
     pool of sections  =====  shared memory  =====  cache of views
```

| Component | State | Operations | What is hard | What makes it correct |
|---|---|---|---|---|
| RPC client: shared memory (`ws2_32-rpc-client.cpp`) | two maps, `cache` and `used`, under a mutex | take a section of a size, put it back, unload | two sections per call; names computed from a count; early returns | no section is held twice; names are new; the pool stays bounded |
| RPC client: calls | sections in use, the message that is sent | every socket call: fill in, send with a time-out, copy results | the time-out: the section is used again while the server still reads it | a call gets its own results |
| RPC client: start-up, blocking, closing | `server_info`, `use_custom_backend`; per socket "virtual blocking" | `WSAStartup`, `WSACleanup`, `recv`, `send`, `accept`, `connect`, `ioctlsocket`, `closesocket` | servers that come and go; loops of a call and `select` | sockets stay with the server that made them; blocking calls block, and end |
| RPC server (`ws2_32-rpc-server.cpp`) | cache of views per process and name; timers | start-up, one request at a time, clean-up, leaving after a quiet minute | ids used again, two servers at once, a request without data | a request is served on its own parameters; an idle server leaves |
| Client shared: contexts and select worker (`wsock32-client-shared.cpp`) | one context per handle: state, watched events, `io_flags`, `event_flags`, target | `WSAAsyncSelect`, `WSAEventSelect`, `WSAEnumNetworkEvents`, the worker's cycle | every access is atomic, nothing spans two of them; handles come back | every event is announced, none is lost between two accesses |
| Client shared: overlapped operations | two queues per context, `overlapped_sockets` | `WSARecvFrom`, `WSASendTo`, `WSAGetOverlappedResult`, completion routines, the worker's cycle | operations found by address; results before signals; close and clean-up meanwhile | each datum goes to one operation, in order; operations end |
| Client shared: blocking mode | `is_virtual_blocking` | `ioctlsocket`, `temp_disable_virtual_blocking` | saved, changed and restored while the program sets it | the mode is the one the program asked for |
| Client shared: names and asynchronous lookups | caches of answers, handles of lookups | `WSAAsyncGetHostByName` and its kin, `WSACancelAsyncRequest` | cancelling what is just being done | one answer per lookup, none after cancelling |
| Backend over zero-tier (`wsock-backend-zero-tier.cpp`) | node, network, map of handles, broadcast and name tables | the socket calls, `select` | joins in the background; skips handles it does not know | as its callers use it |
| Backend over ws2_32 (`wsock-backend-ws2_32.cpp`) | none | forwards | `select` fails for all when one handle is bad | as its callers use it |
| Front ends (`wsock32-*.cpp`, `dll-main.cpp`) | none | exported names, logging | | |

A program calls the exported functions from any thread. A call that the client
answers itself touches only a context. Any other is one message to the server
and one answer; the server handles them one after the other for all processes.
The two workers are threads of the game process that make the same calls as
the program does, through the same RPC client.

### 1.2 Siege Studio

| Component | State | Operations | What is hard | What makes it correct |
|---|---|---|---|---|
| Game detection (`siege-studio/src/views/default_view.cpp`) | paths detected, two pending lists, the flag of a flush, the list | a round of search with a worker per drive, the flush, the end of the view | workers report while the window takes what they reported | what is detected is listed; one message at a time |
| Update and installation (`app-update.cpp`, `siege-studio.cpp`, `siege_main_window.cpp`) | latest version, update in progress, loaded core, window class, window | detect, offer, download, exchange the core and the window, choose the installation to start, quit | the module with the running code is exchanged by a work item, with the window's thread taking part through APCs | one update at a time; the process keeps a window whose code is loaded, or ends; what is installed is later than what runs |
| Remaining views and entry points | settings, layout | | | |

### 1.3 Modules and tools

| Component | State | Operations | What is hard | What makes it correct |
|---|---|---|---|---|
| Resource views (`siege-presentation-resource`) | reader, contents under a lock, stop flag, rows and their indices | list an archive by a thread, select, extract, close | the thread sends messages to the window, which waits for the lock or for the thread | an archive is listed, each file once; a view that is closed goes away |
| Executable view: launch (`exe_view.launch.cpp`, `exe_shared.cpp`) | hosting preference, network, launch flags, shared section, injector | edit the settings, launch, take controller input, notice the end of the game | launches and ends are of different settings; one injector replaces another | two games never share an identity on the network; a game that ended can be launched again |
| Executable view: input (`input_injector.cpp`, `input.cpp`) | last state of the controller, keys held, timers of the pointer | compare two reports, press and release keys, move the pointer | 16-bit arithmetic; a stick passes through several keys in one report | a key is down while its control is out |
| Executable view: bindings (`exe_view.input.cpp`, `exe_view.launch.cpp`, `exe_shared.cpp`, `input_*.cpp`) | list of bindings, tables that point into it, what the game's file held | fill the tables, change a row, work out what the game plays itself and what is played as keys | games differ in names, axes and mappings; the launch reorders the list; the game keeps what it was told | each input plays the action chosen for it, once, and nothing that an earlier launch had bound |
| 2D, 3D, audio and script views | the file on show | draw, play, edit | the palette search of the 2D view, as in the resource views | |
| Platform library | loaded modules | threads, streams, HTTP, modules | | |
| File formats | caches by path; which tool lists a cabinet | list, read and write archives, shapes, images, sounds | folders are told from paths, each format in its way; external tools are tried in turn over one kept listing; the caches have no lock | whoever goes through the folders that are listed finds each file once; a cabinet is extracted by the tool that listed it |
| Game extensions | offsets and names per game; the configuration a game reads | read and write the bindings of a game, format its arguments, patch and hook it | the same table in four dialects; a file the game rewrites; foreign code | what is written is what was chosen |
| Input filtration | hooks | install, remove, filter | the order of hooks | |
| Installation descriptions | constant tables | | | |
| Game installer, archive extractor (`game-unpack`, `unvol`) | dialog and its page, worker, promises, `should_cancel`, `is_done` | extract with progress, questions and cancellation | the worker waits for answers of a dialog that may be closed | a cancelled installation stops; the dialog shows where the worker is |
| Shape converter, archive creator (`dts-convert`, `nuvol`) | none | convert | sequential | |

The window library (`siege-platform`'s `basic_window` and its kin) is a git
submodule whose files are not in the repository. What the specifications need
of it is modelled from how the code uses it, or left out.

What is hard to test in all this is listed under `hazards` in `PROJECT.json`,
each at its line and with the properties that would catch it going wrong.

## 2 The modules

| Module | Models | Composes |
|---|---|---|
| `SharedMemoryPool` | the pool of sections of a client process | |
| `RpcRequests` | the requests: their parameters, what the client fills in and reads, what the server's handlers take and give: operators | |
| `RpcTransport` | a call: pool, message, server, time-out, results, process ids | extends `SharedMemoryPool` and `RpcRequests` |
| `SocketEvents` | contexts, select worker, notifications | |
| `OverlappedIo` | queues, overlapped worker, results and completion routines | |
| `BlockingCalls` | virtual blocking: the loops of blocking calls | |
| `AsyncLookup` | look-ups by work items, their handles and their cancellation | |
| `ServerLifecycle` | how processes find, start and lose servers | |
| `SelectContract` | what Winsock promises of `select`: abstract | |
| `ZeroTierBackend` | the server's calls of the ZeroTier library under its lock | an instance of `SelectContract` (`Contract`), which it refines |
| `GameDetection` | search for games, flush, list | |
| `AppUpdate` | detection and installation of an update, exchange of core and window | |
| `ArchiveFormats` | what each kind of archive lists of a folder, and with which tool: operators | |
| `VolumeView` | listing, selecting and extracting an archive | extends `ArchiveFormats` |
| `GameUnpack` | the installer: dialog, worker, promises | |
| `GameLaunch` | which games are launched under which identity | |
| `InputInjector` | keys and pointer from controller reports | |
| `GameTable` | what each id Tech extension knows of its game: operators and records | |
| `GameBindings` | tables of inputs, launch, and the binds the game keeps | extends `GameTable` |
| `LaunchTable` | what each extension says of a launch: settings, values offered, form of the command line: operators and records | |
| `LaunchSettings` | the settings of a game, what of them is remembered, and what a launch makes of them | extends `LaunchTable` |
| `MC_BlockingCalls` | instance | `BlockingCalls`, `AsyncLookup` |
| `MC_GameProcess` | instance | extends `ServerLifecycle`, `GameLaunch`, `InputInjector`, `GameBindings` and `LaunchSettings` |
| `MC_Studio` | instance | extends `GameDetection` and `AppUpdate`, instances of `VolumeView` and `GameUnpack` |
| other `MC_*` | instances of the module they are named after | |
| `*Proofs` | theorems: `RpcTransportProofs` about the pool and the transport, `StudioProofs` about the parts of `MC_Studio` but the view, `BlockingCallsProofs` about both parts of `MC_BlockingCalls`, `GameProcessProofs` about those of `MC_GameProcess` but the bindings, `ViewProofs` about the view of an archive and the view of a game's bindings (`VolumeView`, `GameBindings`), the others about the module they are named after | |

The three composed instances put parts of one program together that share no
state: a behaviour is one of any one of them, the others rest in an initial
state. A property of a part holds of the composition as it does of the part.

Each module has a state variable for each piece of state of the code that its
properties tell apart, one action per step between two points where others may
run, and comments that name the function. Conventions:

- An access under a mutex is one step. Where the code unlocks between a check
  and its use, there are two actions, and others run in between.
- Variables or fields marked *history* are not in the code. They remember what
  a program was told, so that a property can speak of it; no guard reads them
  except those that say what a disciplined program does.
- A definition called a *mutant* is the same operation with a plausible
  mistake. Nothing uses it; putting it in the place of the operation makes the
  property named in `PROJECT.json` fail.
- A call of the server from a model other than `RpcTransport` is one step. That
  is what `RpcTransport` shows of a call that is answered: it is served
  once, on its own parameters, and answered with its own results. What a call that
  was given up may still do is in `RpcTransport` only (section 6).

### SharedMemoryPool

A section is its number in the process. `cache`, `used` and `length` are the
two maps and the sizes; `params` and `buffer` are the pointers a call keeps.
`GetGlobalMemory` is the whole function, under `cache_mutex`: the code takes the
first fitting section in the order of their atoms, which the system chooses, so
the model takes any; a new one is created, and named, only when there is none. `PutBack` is the
deleter of the `shared_ptr`. `TakeParams`, `TakeBuffer`, `PutBuffer`,
`PutParams` follow the order in which a call nests its sections. `Unload` is
the end of the process or of the library. `BadAlloc` is the exception of a section that
cannot be made: it ends the process where a call is `noexcept`, as most are, and gives the
call's own section back where it is caught. `RpcTransport` uses the actions of the pool as
parts of its own.

### RpcRequests

The 18 messages have numbers (`Id`) and fields (`Params`). The client's half (`Client`, the
`Ask...`) says which fields a call fills in and which it reads when it is answered, the
server's (`Server`, the `Handle...`) which a handler takes and which it lets the backend write. The
two are read from two files and written apart; that they fit is `Matched`.
`Ways` are the shapes a request can have on its way: plain; with a section for its
data, or without it when there are no bytes; or the clean-up.

### RpcTransport

`pc` says where a thread is between taking its first section and putting it
back. `memory` holds what is in each section of each incarnation of a process:
the call whose parameters were written last, the section of its data, and whose
results. `Send` puts the name of a section into `inbox`; `Take` and `Complete`
are the server's thread, whose `Resolve` finds a view in its cache or opens
one; `Unmap` is the clean-up message; `Collect` and `Return` copy the results
and put the sections back. `Abandon` is the time-out: sections go back, the
message stays, unless the system took it back in time, and is handled when the server comes
to it; `SendFails` is a window that is gone. A section remembers whose parameters it holds
(`in`) and whose results were written into it last (`out`), so that the request of a call
that was given up can be carried out on what the next call put there, and its results hit
that call's parameters (`Written`). `server` is up, hung for good, in a handler or
elsewhere, or gone (`Hang`, `ServerEnds`). `Restart` ends a process and gives its id to another, `gen`
tells the two apart; `stranded` marks a process whose id was used before by one that the
server was not done with: it had views of it, or a message from it. No other process is left out by `OwnParameters`
and `OwnAnswer`. A call is one of the `Requests` the threads make and goes one of its
`Ways`: "plain", a "transfer" with a second section, "empty", a transfer of no bytes, or
"cleanup".

### SocketEvents

`net` is what the server has of a socket: link, what waits in it, whether there
is room. `ctx` is `socket_handle_info`. The program's calls are `OpenCall`,
`OpenEnd`, `CloseCall`, `CloseEnd`, `Select` (`WSAAsyncSelect` and
`WSAEventSelect`), `EnumTake` and `EnumReset`, the two halves of
`WSAEnumNetworkEvents`, the connects, and those that use a socket and re-enable
an event (`Rearm`). The worker's cycle is `Watch`, `Poll`, `Recopy`, a look at
each set, `Complete` for a connection, and `Mark` and `Send` for each socket.
Between any two of these the program's threads run. A program does not close a
socket that another of its threads is in a call on. `NothingHeldBack` lets a flag be
set in `io_flags` only if the program has been told and has not reacted, is about to be
told (the event is recorded), or is in the call that reacts (`Reacting`), which clears the
flag in a step of its own. `NoContext`, for a handle the process knows nothing of, is no
context and no socket.

### OverlappedIo

`ctx` has the two queues, `where` is `overlapped_sockets`, `signaled` the event
objects, `apcs` the completion routines queued to a thread. `RecvFrom` and
`SendTo` are the calls (`Start`, `Queue`, `Enqueued`), `ResetEvent` and `EventSet` what the
program does with its event; `Peek`, `Select`, `Call`, `Store`, `Dispatch`,
`EndCycle` the worker, whose `jobs` are the copies (`Waiting`) of the first read and the first
write that wait, the read done first (`Turn`); `Ask`, `Wake`, `Learn` are `WSAGetOverlappedResult`;
`RunApc` and `Reissue` the APC, whose removal of the operation comes after the
completion routine. `Close` and `Cleanup` come at any time. Each OVERLAPPED
belongs to one thread, as Windows demands.

### BlockingCalls

One socket. `nonblocking` is the mode of the server's socket, `virtual` the
client's flag. A call begins (`Begin`), is served (`Serve`), and if it would
have blocked, looks at the flag and polls (`Reselect`, `ConnectWait`) until it
goes around again. `server` is the caller the server's one thread is blocked
by, if the server's socket blocks. The overlapped worker makes the same calls
between `Disable` and `Restore` or `Reset`. A `select` that fails ends the call
(`SelectFails`). The program asks for either mode (`Ioctl`, `SetVirtual`), and what it
asks goes to the server's socket too; `asked` is what it asked last, and `clashed` that the worker
cannot know of it: the flag was cleared while the worker had it disabled, or set
before the worker disabled it or after it looked again.

### ServerLifecycle

`proc` is where each server process is: just born, alone when it found no
window, joining with a window but no network, online, gone. `timer` is its
grace timer: no message since the last tick, or one. `pc` is where a process is
in `WSAStartup`: it looks for a window, launches a server, waits for its window
and then for it to be online, each a bounded number of times. `server` is
`server_info`. `held` are the sockets of a process by the server that made
them; `Use` passes one to whatever `Route` answers. All processes name the same
node and network and set the variable that asks for the replacement.

### GameDetection

A worker is a drive in a round. `Detect` and `Collect` are `process_path`,
`Look` and `Add` the two halves of `process_fallback`, each under `path_lock`;
`Check`, `Push`, `Schedule` and `Post` are the report: a flag read without a
lock, the pending list under its lock, the exchange of `flush_scheduled`, and
`PostMessage`. `Flush`, `Take` and `Recheck` are `wm_flush_detections`: the
flag is cleared, the lists are swapped out and listed, and what came meanwhile
is looked for. `Destroy` and `Clear` are `wm_destroy`. `StartRound` is the
creation of the view or `SIEGE_UNPACK_DONE`. Paths that the code would leave out by
their name are not in `Files`; a path is near another when one lies in or below the
other's folder.

### AsyncLookup

`event` is what the system has under each handle: closed, clear or set. `Ask`
makes one and queues the work item of one of the six functions, if it has the arguments that one needs
(`Call`; `Refuse` if not); `GiveUp`, `Begin`, `Find` or `Lose`, `LookAgain`, `Write`, `Post`
and `Close` are the work item between its two looks at the event, the writing
into the program's buffer, the message and the closing of the event. What is found of a service
or of a protocol is in one `place` for all threads until it is written; `mixed`, a
history variable, has the look-ups whose answer another one found over meanwhile
(section 6). `Cancel` sets the event; `Receive` is the program, which knows a look-up by its handle. A
handle may be given again as soon as it was closed.

### SelectContract and ZeroTierBackend

`SelectContract` has a call wait with its three sets until it answers with a
nonempty part of each that was ready at a moment of the call, with nothing when
its time is over, or fails.
`ZeroTierBackend` is the code. `lock` is the library's lock, under which each
operation is one action, and `call` where each thread is in `select`: `Transfer`
and `Select` copy the sets, `Slice` asks the library, `FinishReady` answers
under the lock, `Check` gives the lock back between two slices, `Expire` ends the
loop. `Startup`, which starts nothing without a network (`HasNetwork`), `NewSocket`, `Accept`,
`Bind`, `Connect`, `Listen`, `Shutdown`, `SendTo`, `RecvFrom`, `GetHostByName` and `Close` are whole
calls, with what they do when a part of them fails; those that only forward under the lock
are alike (`Passing`, `PassOn`). `role` is what a socket is to ZeroTier. `SendTo` tells a broadcast
(`IsBroadcast`), which goes to many, from any other datagram (`Unicast`), whose address may be
replaced (`RewriteIfForeign`); `subnets`, `bound` and `peers` decide where they go. `hosts` is
the cache of names of each thread.

### AppUpdate

`info` is what a look-up found per channel; `attempt` is one click on the
button, from the look-up by a work item (`DetectUpdate`, `Fetch`, `Store`) over
the question (`Poll`, `Decline`, `Accept`, `DialogCallback`) to the work item
that downloads, has the core unloaded (`Unload`, `Await`, `Free`), installs,
registers the window class anew and creates a window by an APC (`RunApc`).
`core` counts the loaded cores, `class` and `mainWindow` say of which one each is;
`HasTarget` is the choice `discover_installation_info` makes among the
folders of installed versions, whose names are compared as text; an `Installation` keeps
the version in its folder's name apart from the one it holds. A version is a year and a
week. `Replacing` is an attempt that downloads, frees, installs or loads; `Deserted` a
program with nothing left that could open a window or end it.
`raced` is a history variable: two look-ups of a channel overlapped, or a version was read
while one could still write it (section 6).

### ArchiveFormats

An archive is a sequence of entries, each with a path and perhaps without
contents; `Listing` is what the reader of its kind shows of one folder. A
folder of a `pak` is what holds a file (`PakListing`), of a `zip` an
entry of its own, of a `vol` an entry of a table to which files refer by number.
Cabinets are listed by external tools, whose lists have no folders: `AddFolders`
adds each when its first file comes. The tools are tried in turn, and their list is
kept for the next question, whichever of them made it: `Remember` is the
note of who did, `ExtractedWith` the choice that rests on it. The layout in
bytes is left out, and so is the order of a listing where a reader sorts or hashes.

### VolumeView

The archive is of one of the kinds (`kind`), and `tools` are those remembered for it.
`walker` is the thread that lists, with the folders it has still to walk:
`AppendFile` adds to the contents under the lock, `OnNewItem`, `InsertRow`,
`KeepIndex` and `SetTileInfo` are the row, each a message that the window's
thread must answer. `viewUi` says what that thread waits for: nothing, the lock
(`AskContents`), the walker's end (`CloseView`, `Destroyed`). `job` is the work
item of `ExtractAll`.

### GameUnpack

`page` and `callback` are the task dialog, `work` is the worker, which goes from
module to module: names and discs (`CheckNames`), `Gather`, `Stage`, the questions (`AskForPath`,
`AskForVariable`) each by an APC and a promise, the installation with
its looks at `should_cancel` (`CheckCancel`), and the `Report`. `Timer`, `Choose`,
`Answer` and `Close` are the dialog's thread; `Exit` is the end of `main`, which
waits ten seconds for the worker.

### GameLaunch

`preference`, `network` and `zeroTier` are the settings; `enabled` are the two
launch flags; `game` what has been started, under which identity (`NodeNow`);
`injector` whose end is waited for, `sink` the registrations for raw input of the
process. `LaunchGame` replaces the injector, whose destructor removes the
registration (`TakeInput` is the dialog that makes its own). `Input` is a report
that reaches the injector, when it looks whether its game has ended; it resets
the flags and stores the address under the network and role.

### InputInjector

`last` is the state of the controller kept between two reports, with the code's
`std::int16_t` and `std::uint16_t` arithmetic (`Axis`, `Scale`, `Negated`).
`GetChanges` is the sequence of changes of two reports; `WmInput` presses and
releases what is mapped and starts or stops the pointer. `odd` is a history
variable: a stick came to one of the values where the arithmetic is off (section 6). `OwnKey`
is a mapping to a key that no other control has: of a key that two controls press, the
first to be let go lifts it.

### GameTable and GameBindings

An input of a controller is named for its `VK_GAMEPAD_` code, and an action for
the input that has it by default, so that 37 games with as many vocabularies
have one set of actions. `GameTable` has the number of an input on each kind of
controller (`HardwareIndex`, `Winmm`), its name in each of the four families of
games (`ButtonName`, `AxisName`, `DpadName`), the mappings a family takes
(`IsInputMappingValid`), and a record per game: which names its
`prelaunch` code writes and gives up, and when, which files its
bindings are read from, and which actions have no input by default.

`GameBindings` is the view. `entries` is the list in `exe_state`, `shown` what the
rows of the tables show. `ChangeKey` and `ChangeInput` change the entry at the
row's index. `HandOver`, the launch, partitions the list in place, as the code does, works out
`Shared` (what the game plays, what the injector plays), and has the game run
the file of bindings (`Run`), whose effect on `binds` stays for the next launch.
`played` is what the last launch handed over. Sequences that the code filters or sorts are taken by the
places of their members (`Picked`, `InOrder`), which a proof can follow where a recursive definition could not.

Two games of the family are left out: anox, whose extension has no axes of the
mouse, no backends, and leaves the run of its file commented out, and
battle-metal, whose names of actions lack the sign of a held action. Also left
out are keys that exist twice or need a shift, the wheel, and controllers whose inputs the user
has numbered, the only ones that can send `copy_args` the way for directions a game cannot map.

### LaunchTable and LaunchSettings

`LaunchTable` has a record per game: its settings by kind (flags, numbers, texts), which
of them connect, host, serve, take a controller or name the executable, the values a
setting is offered, in what form its maps come (loose, in an archive, in a zip), and which
`format_command_line` it has. `LaunchSettings` is the view of an executable. `fields` are the
rows and what they say, `args` what is passed on, `data` the preference, the last real address and
the network, and `registry` what of these is kept for the next game. `Persisted` is what
follows every change of a row; `Applied` what a preference does to the rows that connect,
host and serve, some of which are not shown. `StartGame` turns the controller's setting
on or off, keeps `data`, and works out the command line and the three variables of the
environment. `GameEnded` is the end of a game that had an address: what the view remembers is written to the registry again. Each kind of game has a command line of its own (`QuakeLine`, `Quake2Line`, `SofLine`,
`Quake3Line`, `RavenLine`, `DynamixLine`). If the extension's preparations fail nothing is done;
if the process does not start, the environment is set already. `Reopen` is another
executable: its rows begin with the preference and the address of the one before. `said` is
a history variable: what the user has typed and chosen. `SettingsFit` and `BindingsFit` (of
`GameBindings`) are what the theorems assume of the tables; `MC_GameProcess` has TLC check them
of every game there is.

Left out are the group a setting is shown in, the player's name, the word for the protocol, the
order of the words of a command line, and executables without an extension.


## 3 The runs

Runs that TLC must find without error:

| Run | Module, cfg | What it shows |
|---|---|---|
| pool | `MC_SharedMemoryPool`, `MC_SharedMemoryPool.cfg` | No section is shared (`ExclusiveSlots`), no name taken (`FreshNames`), and the pool never has more sections than its threads can hold of each size (`PoolBounded`). |
| rpc | `MC_RpcTransport`, `RpcProcesses.cfg` | A request somebody waits for is served on its own parameters (`OwnParameters`) and answered with its own results (`OwnAnswer`), though a call is given up and its sections are used again, and processes come back under the same id. |
| rpc_answers | `MC_RpcTransport`, `RpcThreads.cfg` | The same of the answers (`OwnAnswer`) when threads make one call after the other: nothing of a call that was given up is taken for the answer of the next. |
| rpc_returns | `MC_RpcTransport`, `RpcReturns.cfg` | Every call returns, though the server hangs in another's request or is gone (`CallReturns`). |
| events_window | `MC_SocketEvents`, `EventsWindow.cfg` | FD_CONNECT tells the truth (`ConnectTruth`), nothing is held back that was not announced (`NothingHeldBack`), and connection, end and room are announced (`ConnectionAnnounced`). |
| events_object | `MC_SocketEvents`, `EventsObject.cfg` | Data and callers that wait are announced, again after each call (`WaitingAnnounced`). |
| overlapped | `MC_OverlappedIo`, `Overlapped.cfg` | Each datum goes to one operation, in order (`ReadsInOrder`); who is told finds a result, once (`ToldMeansDone`); operations end, those of a closed socket too (`OpsEnd`). |
| lifecycle | `MC_GameProcess`, `Lifecycle.cfg` | A server answers whom it is to answer (`ServersAnswer`): the processes that hold sockets it made, for as long as it runs, and those that launched it and waited. Start-up ends and idle servers leave (`ServersComeAndGo`). Games that run have identities of their own (`OwnIdentity`), a game that ended can be launched again (`LaunchComesBack`), and keys follow the controller (`KeysFollow`). In each of 37 games an input plays the action chosen for it, once, the keys do what their rows say and the names of buttons what was given to those buttons (`PlayedAsChosen`), and nothing is left of an earlier launch or player (`NothingStale`). In each of 43 games a launch tells the game what the user prefers and has chosen, and nothing else (`ToldAsPreferred`), and gives it the identity and the address that go with it (`EnvironmentFits`). |
| blocking | `MC_BlockingCalls`, `Blocking.cfg` | Whatever the program does with FIONBIO, calls on a socket it wants to block do not tell of WSAEWOULDBLOCK, unless the worker has the flag disabled when they look or could not know of the mode (`BlockingWaits`); the mode is kept (`ModeKept`); calls end (`CallsEnd`). A look-up tells its own answer, once, and none when it was cancelled in time (`LookupTold`). |
| studio | `MC_Studio`, `Studio.cfg` | What is detected has a message on its way and is listed (`FlushUnderWay`, `DetectedListed`). There is one update at a time (`OneUpdate`), of a version later than the program's, in the folder of its own name, unless look-ups overlap (`InstalledIsLater`); it never frees the code of an open window and leaves a window or ends the program (`WindowStays`), and it ends (`UpdateEnds`). An archive, of whatever kind, comes to be listed, each file once and in a row of its own, to be extracted by the tool that listed it, and a closed view goes away (`ArchiveListed`). A cancelled installation stops, and its dialog shows what it asks or how it ended (`DialogFollows`). |
| backend | `MC_ZeroTierBackend`, `Backend.cfg` | `select` keeps Winsock's contract (`SelectKeepsContract`, a refinement) and lets others get through (`OthersGetThrough`); no socket of the library is lost (`NoSocketLost`). |

A run that must fail, since the code does not do what a comment of the repository
says:

| Run | Module, cfg | What it shows |
|---|---|---|
| blocking_fionbio | `MC_BlockingCalls`, `BlockingFionbio.cfg` | `ioctlsocket(FIONBIO, 0)` reaches the server's socket, and the next `recv` blocks the server for all: `ServerFree`, after the comment at `wsock32-client-shared.cpp:852`. |

### Bounds

Constants that bound a model are named in its module; each is large enough for
the case the properties are about.

- *pool*: two threads of a process hold two sections each, of two sizes: a
  request then finds a fitting section, one that is too small, or none, and
  sections of both sizes are free at once. Nine sections are more than four
  holders can make the code create, so the bound is never met; `PoolBounded`
  says so. Processes share nothing here.
- *rpc*: two threads of a game and one of another process, one call each, of two
  requests that have three shapes between them (a datagram with and without bytes, the clean-up); one call may be given up while
  the server is only slow, any number when it hangs or is gone, and a process may come back once. A stale view
  needs exactly this: a call, an end without clean-up, and a call of the next
  process. A section used again needs one call that was given up and another thread.
- *rpc_answers*: two calls per thread, with and without data, one of which may be given up: the thread
  itself calls again while its first request is still in the inbox or being handled, with the same
  section for its parameters and another for its data.
- *rpc_returns*: a call of three threads, so that one is handled when the server hangs and others wait behind it.
- *events*: one socket, since the worker treats each by itself, except that
  `select` fails for all of them together (section 6). The window run has
  two threads and re-registration. The event-object run has up to three data or
  callers waiting, so that events are announced again after each.
- *overlapped*: two OVERLAPPED with three operations, so that one is used a
  second time while the other is under way, and two data, so that order
  matters. Three programs: one that ends an operation before it starts the next, one that
  also calls WSACleanup, and one that does nothing of the kind, of which the
  properties, which are about the careful, say nothing: it is there to have the
  code's other steps taken.
- *lifecycle*: two processes and two servers: the race of two launches and the
  replacement of a server need both. Two tries instead of 3 and of 500 meet
  both outcomes of each loop. Two games and one network: two launches are the most that are
  offered at once, and the network may also be none. The reports of the
  controller are the extremes, the values around the dead zone and on both
  sides of 0, of each stick direction, trigger and button that is compared.
  The bindings: every game of the table, two launches with two of four sets of controllers and one change of a
  row before, between or after them. The six actions are one for a stick the hardware has everywhere and one for a
  stick it may lack, a trigger, an action that older games put on an axis, one
  that is a button everywhere, and the mouse look; of games that differ in
  nothing but the names of other actions one is enough, and TLC sees one. The
  player's file is absent or has two keys exchanged. The controllers are those
  whose right stick, triggers and axes differ, and one that comes second, after
  one the studio does not know.
  The settings: every game of the table with two values of each of its lists, two changes and two
  launches, and another game opened before or between them; of games that differ in nothing but
  their names one.
- *blocking*: two threads and the overlapped worker, `recv` and `connect`, and FIONBIO with
  0 and with 1 at any time: the server may be blocked in a call, which the liveness property says.
  `send` and `accept` take the same path as `recv` with another counter. Two
  look-ups, each of any of the six functions, and two handles: one handle can be given to both,
  one after the other, and both may share the place of what they find.
- *studio*: one drive and two rounds of the search, so that two workers run at once; the
  drives of a round do nothing together that the workers of two rounds do not.
  One search path leads to a known game and an executable beside it, the other to
  that executable and a program elsewhere: a fallback is met twice, one may be
  left out because of the game, and batches of two are full or are not. Two
  attempts to update over two channels, from week 2 of a year, with the last
  week of the year before, a week of one digit and one of two to be found: the
  attempts overlap at every step. One archive of
  each of twenty kinds, with two to four files, at the top and in folders up to two
  deep as far as the kind has folders, of which two names are shown: a file is met
  before and after its folder, one folder more than once, and a folder with and
  without files of its own. An installation that is given one disc of
  three, with a disc missing before or after those that are there, one of two whose files are elsewhere, and one with archives in it
  and two questions.
- *backend*: two threads and two sockets, in seven programs that divide what they do
  between them: one that connects and selects with a time-out and without, one that selects over
  two sockets, one that accepts, one that sends and receives datagrams, one that binds and
  connects, and one that asks for a name, with a network and without. One peer and one fallback
  address.

Deadlock is checked in the runs *pool* and *backend*. In the others the system may really
stop: programs end, servers leave, bounds are met.

## 4 Fairness

Liveness holds under weak fairness of what the code's own threads do, and of
nothing that depends on the program or the network.

- `RpcTransport`: the server handles messages and a thread goes on with a call
  it began. Nothing says that a call is ever made or that the server hangs, and a call need
  not be given up while the server is only slow; it is once the server hangs for good or is
  gone, which is what the time-out of `SendMessageTimeout` promises.
- `SocketEvents`: the worker runs, a call that was begun ends. In the run with
  an event object, the program takes what is announced: strong fairness of
  `EnumTake`, since the worker may set and a call may reset the event over and
  over, and a program that waits for the event is woken by each. No fairness
  for peers, data or room.
- `OverlappedIo`: the worker runs, unless it was stopped, and a thread that was
  signalled or has an APC takes the result.
- `BlockingCalls`: a call goes on, a started `ioctlsocket` ends, and a connect
  that the server has begun comes to an outcome: the one assumption on the
  network, which its time-out justifies.
- `ServerLifecycle`: start-up goes on, servers start and their timers tick
  (`SetTimer` of the code). Processes need do nothing, and may crash.
- `AsyncLookup`: work items run and the program takes its messages.
- `ZeroTierBackend`: a thread that has the lock goes on (weak fairness); one that
  asks for it gets it (strong fairness), since who holds it in `select` gives it
  away after each slice and yields before it asks again. It is this that
  `OthersGetThrough` rests on. The network need do nothing.
- `GameDetection`: work items run, each worker, and the window's thread handles
  its messages. That a round starts, fails or that the view is destroyed is not
  assumed.
- `AppUpdate`: the work of an attempt runs, the main thread comes back to its loop, and the
  dialog's timer calls back. That a look-up is answered by the network, or that its task goes
  on, is not assumed, nor that the user answers.
- `VolumeView`: the walker runs and the window's thread answers; strong
  fairness where a message can be answered only between two things that
  thread does of its own.
- `GameUnpack`: the worker runs, a page's timer fires, ten seconds pass. The user
  need not answer.
- `GameLaunch`: the user goes on using a mouse or a controller; the end of a game
  is noticed at the next input only.

## 5 The proofs

| Theorem | States |
|---|---|
| `PoolTypeCorrect` | `PoolSpec => []PoolTypeOK` |
| `PoolExclusive` | `PoolSpec => []ExclusiveSlots` |
| `PoolBooksInOrder` | `PoolSpec => []Ledger`: free and used sections are disjoint and numbered without a gap |
| `PoolFreshNames` | the action property `FreshNames` |
| `PoolStaysBounded` | `[]PoolBounded` |
| `TransportOwnAnswer`, `TransportOwnParameters` | `Spec => []OwnAnswer`, `Spec => []OwnParameters` |
| `TransportExclusiveSlots` | what the pool guarantees, of the transport |
| `RequestsMatch` | `Matched`: the client's and the server's half of each of the 18 requests fit |
| `DetectionTypeCorrect` | `Spec => []TypeOK` of the search |
| `DetectionFlushUnderWay` | `Spec => []FlushUnderWay` |
| `BackendKeepsContract` | `ZeroTierBackend`'s `Spec` implies `Contract!Spec`, what is promised of `select` |
| `BackendLosesNoSocket` | `Spec => []NoSocketLost` |
| `EventsShape` | `Spec => []Shape` of the contexts and the select worker: types, and that calls and worker are about sockets that have a context |
| `EventsNothingHeldBack` | `Spec => []NothingHeldBack` |
| `EventsConnectTruth` | `Spec => []ConnectTruth`, over zero-tier and as long as no handle is given out again |
| `OverlappedTypes` | `Spec => []OverlappedTypeOK` of the queues, the copies and what the program is told |
| `OverlappedReadsInOrder`, `OverlappedToldMeansDone` | `Spec => []ReadsInOrder`, `Spec => []ToldMeansDone` |
| `UpdateOneUpdate`, `UpdateWindowStays`, `UpdateInstalledIsLater` | `UpdateSpec => []OneUpdate`, `[]WindowStays`, `[]InstalledIsLater` |
| `LaunchOwnIdentity` | `LaunchSpec => []OwnIdentity` |
| `LifecycleServersAnswer` | `Spec => []ServersAnswer` of processes and servers |
| `InputKeysFollow` | `InputSpec => []KeysFollow` |
| `BindingsNothingStale` | `BindingsSpec => []NothingStale`, for games of the four families of names |
| `BindingsPlayedAsChosen` | `BindingsSpec => []PlayedAsChosen`, for games, keys and files that fit together |
| `SettingsToldAsPreferred`, `SettingsEnvironmentFits` | `SettingsSpec => []ToldAsPreferred`, `SettingsSpec => []EnvironmentFits`, for games whose tables fit |
| `RowsAreFound`, `ToolIsKept` | `Spec => []RowsFound`, `Spec => []ToolKept` of the view of an archive, two of the parts of `ArchiveListed` |
| `UnpackCancelStops` | `Spec => []CancelStops` of the unpacker, the part of `DialogFollows` about safety |
| `BlockingModeKept`, `BlockingCallsWait` | `Spec => []ModeKept`, `Spec => []BlockingWaits` |
| `LookupsTellTrue` | `BothSpec` implies that `TellsTrue` holds of every look-up always, the part of `LookupTold` about safety |

They hold for any values of the constants that satisfy the named assumptions of
the modules (`PoolAssumption`, `TransportAssumption`, `EventsAssumption`, `OverlappedAssumption`, `BlockingAssumption`,
`LookupAssumption`, `BackendAssumption`, `DetectionAssumption`, `UpdateAssumption`, `LifecycleAssumption`,
`InputAssumption`), and seven of the statements have a hypothesis of their own:
`PoolStaysBounded` that threads and sizes are finitely many, `LaunchOwnIdentity` that
"no game" is not a game, `EventsConnectTruth` that the
backend is the one over zero-tier and that no handle is given out again, `BindingsNothingStale`
that each game names its inputs as one of the four families does (`FamiliesKnown`),
`BindingsPlayedAsChosen` that the tables fit together (`BindingsFit`: no key has the code of an input of a
controller, no action is listed twice, and each key that is listed does something by default and in a file), and the two
about settings what the tables of all games have in common (`SettingsFit`): the settings that
connect and host are rows of their own (one that does both is an address), flags are rows that a
preference switches, the words a command line adds are no rows, and a game whose line leaves out numbers
or the name of an executable has none. TLC evaluates all three of the tables of `GameTable` and `LaunchTable`
(`TablesAssumption` in `MC_GameProcess`). The hypotheses of `EventsConnectTruth` are what
the code needs: over ws2_32 one closed handle has every socket of the worker's
sets taken for connected, and what was found of a handle is recorded for the next
socket that has it (section 6).

**The pool.** `ExclusiveSlots` is not inductive: that a thread is given a
section nobody holds rests on free sections being held by nobody, which rests
on the two maps being disjoint, and a *new* section is nobody's only if its
name, the number of sections, is not taken. The inductive invariant is therefore
`PoolTypeOK /\ Ledger /\ UsedIsHeld /\ ExclusiveSlots`. `Ledger` says that the two maps
together are `0 .. n-1`, from which cardinalities give that `n` is new
(`FreshNames` uses the same lemma); `UsedIsHeld` that what is used is exactly
what the calls hold. The lemmas about an interval and its cardinality come
first, then one lemma per action.

`PoolBounded` needs more: of each size there are never more sections than two for
each thread of the process, since one is created only when all of that size
are held (`FewOfSize`); the sum over the sizes is a product of finite sets.

**The transport** extends the pool, and each of its steps is one of the pool's as far as the sections go (`BeginCall` is `TakeParams`, `FillBuffer` is `TakeBuffer`, `Collect` is
`PutParams`, `Return` is `PutBuffer`, `Restart` is `Unload`) or
leaves them alone: its invariant begins with the pool's. That a call gets its own
answer is not inductive, and does not follow from `ExclusiveSlots`: a call that was given up gave
its sections back and left its message behind, so that two requests of which one is nobody's
name the same section. What saves the other one is order. The message that was left behind
is older, and the server takes messages as they were sent: `Ordered` says of every message
that whoever holds a section it would be carried out on still waits for a message
behind it, or has not sent one, and `ServedFirst` the same of the one that is handled. So a section
is not touched any more when its call has been answered, and what is written into it before is
overwritten by the handling of the call itself. The rest of the
invariant says that a message is the only one of its call, whose thread waits for it or gave it
up (`Messages`, `Lost`), the same of what is served (`Served`), that each view is of the
section that has the name now (`Views`), and what the sections of a call hold as far as the
call is (`AllFilled`). All of it but the order is said of processes that are not `stranded`: the
server finds views by process id and name, and for a process that meets those of an earlier one the code promises
nothing.

**The events.** `NothingHeldBack` is inductive with the types (`Shape`) only as
`Reacting` is in it: `recv` has read before it clears the flag, and what the program was
told is settled with the reading. That FD_CONNECT tells the truth speaks of a step long after the
connect: the worker copies contexts, asks for readiness, looks at the sets one after the
other and records what it saw in its copy, then in the context, and sends it, while calls open, connect and
close. `Truths` says of each of these places, and of what the program believes, that what
is there of a socket's connect is how the connection stands, if the
server still has that socket (`Settled`); a connection settled one way never becomes settled the other
way. What could unsettle it is a call that makes the socket anew or connects it again:
`Turns` says of each that is under way what is so of its socket, and that no two are on the same one.

**The overlapped operations.** Both properties speak of careful programs (`Careful`), for
the code promises nothing to others (section 6). An operation is
found by the address of its OVERLAPPED, by the program, the worker and the APC alike, and the
worker finds it three steps after it copied it. So the invariant (`CarefulInv`) is first about
whose an entry is: the OVERLAPPED of an entry is in use for the operation the program has in
mind (`Tied`) and each in use has an entry (`Home`), hence one only (`OwnEntry`); the entry is in the
queue of its operation's socket and kind (`Placed`), in the order of the calls
(`Sorted`). The worker's copies are still the first that wait (`Jobs`), because
nothing that waits is removed and what is new comes behind. Then about
what is known of it: what the program was told agrees with what the entry keeps (`Settled`), and a
signal or an APC is there only for an entry with a result (`Announced`), from which
`ToldMeansDone` follows. `ReadsInOrder` follows from `Data`: each datum taken from a socket came to one read
operation or is in the worker's hands (`DataFound`, `DataCame`), in the order of the calls (`DataSorted`), and
all that came is in front of what waits (`DataFront`), so that the next datum goes behind. Each
action that stores, tells or removes changes what came of one operation at most, which is a lemma
on the entries of queues (`CameIs`); the lemmas on sequences say what is left of a queue
when one place is taken out (`RemovedAt`) and what the first that waits is (`FirstWaits`).

**The search.** That whatever is pending has a message is not inductive: a worker that finds the
flag set posts nothing, and that is right only if the flag stands for a message
or for a worker about to post one, which is `OneFlush`. `OneFlush` in turn needs
`ActiveMeansOpen`, that there are updates exactly until the window is on its
way out, for `PostMessage` fails after that; and `Unstarted`, that the workers
of rounds to come have nothing to do, so that starting a round takes no message
from a worker that is posting one. Steps before a worker has
something to report share one lemma (`SilentSteps`); each of the others has its own.

**The update.** `OneUpdate` rests on a flag of a window, `updating`, by which `trigger_update` refuses a second update
(`siege_main_window.cpp:573`), and windows come and go.
`Turns` is what holds it together: there is one window at most and one attempt
that is alive; if both are there the attempt is about that window, which knows of it
(`LiveWindow`), so that `Trigger` refuses a second; a window is about to be created only when
there is neither (`CreateAlone`), and then with the code of the core. `WindowStays` needs
in addition why a window comes: `WindowComes` names, of each moment without one, the step
that will bring it or the exception that `NoWindowLeft` names, and the rest of `Replacement` keeps it
true: which window is the last and which attempt is about it (`Births`, `Attempts`), that what is
to be destroyed is waited for (`Destroying`), and that a class that outlived its core belongs to an
attempt about to register (`LastClass`). `InstalledIsLater` is about values: `Versions` says that a
look-up found a later version, that the one half written has the year of what was found, and that none
is written while an attempt relies on it, unless `raced`. That the weeks of two years compare as
`WeekTotal` does is a lemma on the years and weeks of `UpdateAssumption`.

**The servers.** A socket stays with its maker because a process knows one server at a time:
of the servers that made its sockets every one but that is gone (`HoldsOfKnown`). That it
looks for a server only when it knows none (`Looking`) keeps this so at the end of `WSAStartup`;
`WaitedForOnline` is that who waited knows a server that has been online.

**The keys.** The sixteen-bit arithmetic is done once, in lemmas about `Scale`, `Negated` and
`Axis`: what is reported of a control tells on which side of the dead zone it was and is
(`Sided`), but at the edges that `odd` names. From there on the proof speaks of sides only. `KeysFollow`
is inductive with `NoneDown`, that no key is down while no controller is plugged in.

**The backend.** Every step maps to a step of `SelectContract` or to one that leaves its
calls alone. Where a call is in its slices tells whether it has looked in vain
(`InOrder`), which is what the contract asks of one that times out; the sets
are computed under the lock in the step that answers, so nothing about the lock
is needed.

**The launch.** Each game that runs holds the flag of the preference it was
launched under (`FlagsHeld`), so that two that run were launched under
preferences of different flags (`FlagsApart`). Both flags are given
back at once, when the injector notices the end of its game: that no other
game runs then (`OnlyOne`) holds only because the second launch ends the
registration for input for good. The defect in section 6 is what the
proof rests on: if the second injector got its input, the end of its game
would allow a third launch beside the first, with the identity of one that runs.

**The view of an archive.** Nothing is assumed of what an archive holds or a reader lists.
The row kept for a file is right because no other row is made between its insertion
and the keeping of its number (`RowIsLast`): the walker waits for the window's
thread each time. That one tool is remembered (`ToolKept`) is not inductive, since
from the second listing on the first tool is the one that seems to list; it rests on the
right one being known by then. `ToolKnown` says so: before the first listing none is
known, and afterwards the right one, unless that listing was empty, in which case
there is nothing left to walk.

**The binds.** `NothingStale` compares what a game does after a launch with what it would do if nothing
had been bound before, for the names its family gives up. That it is inductive rests on the
tables: whatever name a family has for an input of any controller is one of those given up
(`NamesAreCleared`), which is proved for each kind of controller from the ranges of the numbers its
inputs have. From there on only that a file is run matters, and not what is in it (`RunForgets`).

`PlayedAsChosen` is about what is in it, and about the partition and the sharing out that lead to
it. Its invariant, `Chosen`, is about the tables between launches: what they show is a dummy, a row of the
controller for each action and then the keys (`TableFits`); what the view knows has no key before
the keys' place (`EntriesFit`), which a partition keeps, as it moves a key to its own place or up (`Moved`);
and the keys of a player who has changed nothing do in the game what the file said (`OwnKeysHold`).
The rest is about one launch, and `ShowsWhatItKnows` gives it the rows of the tables, in another order (`RowsFit`).
An input's key is looked up by its action: it is found and a key
(`FallbackFinds`), and what is found for another input is not this one's key
(`FallbackOwn`); with what a game takes of one controller and of another (`SameTaken`), each of the three outcomes
of a launch has the input played once (`PlayedOnce`). The file then has a line for each row of a key and
each input the game plays (`HandedOver`), and what a name does is what the last line for it says (`LastLine`).
No line but a key's own has the name of a key, except the arrows that some families give to a stick
(`KeyLines`), and none but a button's has the name of that button (`ButtonsNamed`, `OtherLine`), unless
an axis takes it. That a sequence has what its set has is never by induction: `InOrder`,
`Picked` and `Partitioned` are defined by how many members come before one, and that these
numbers are each taken once (`Ranks`) is the pigeonhole principle of the library.

**The settings.** `ToldAsPreferred` speaks of a command line, `EnvironmentFits` of variables, the code
of rows that are switched, typed into and read from the registry. The proof goes through the rows.
`ViewFits` says of them what no user has to know: those that a preference switches are as it has them
(`Switches`), an address among them that is real is the one remembered (`AddressKnown`), and what is
passed on is exactly what the rows say (`PassedOn`). `SaidSo` says that rows and memory say
what the user has said. Each is kept by every change of a row (`PutRow`, from which the lemmas
about a preference, an address and a setting are made), the first by `InitLaunchSettings` for
whatever the registry held. What a launch tells is worked out once from these two (`LineTold`,
`EnvironmentTold`), for each form of command line, and stays so until the next edit (`Launched`).
What makes it hard is that one setting may both connect and host, which is why
`Switches` speaks of the preferences that join (`Joins`).

**The mode.** What the worker finds it saves, changes and puts back, so the flag alone says
nothing: it is what the program asked for until the worker disables it, and from then on it was
set by the program or what the worker saved is what the program asked for (`Mode`). That the worker
puts back only what is still as it left it is needed twice: it keeps what the program set
meanwhile, and it is why the flag is known not to be set at `Reset`. A call of a socket the program wants to
block (`Blocking`) then finds the flag set when it looks, and polls.

**The look-ups.** A program knows a look-up by its handle, which is given again, and the message of one
may be read when the next is under way. Of the look-ups that were given one handle there is a last
(`HasLast`), and all before it were answered, unless the handle was given again too soon (`Latest`); so a
message, the only one with its handle (`Single`), is of the last, and says whether something was found
for it (`Answered`). One that was cancelled in time finds its own event set until it closes it
(`Cancelled`), since no other has that event meanwhile (`Held`). What a buffer holds was found for its
look-up, unless two found something in the same place (`Written`, `Found`). The inductive invariant
`LookupInv` is the conjunction of these.

**The unpacker.** `CancelStops` is not inductive by itself: the invariant `CancelInv` adds that after a
file that came late the user has cancelled and no file is being copied, which holds since each file
is begun only after a look at `should_cancel`.

**What stays with TLC.** Liveness (`CallReturns`, `ConnectionAnnounced`, `OpsEnd`,
`DetectedListed`, ...) and whatever needs ENABLED are outside the prover's
reach, as is induction over data. Nothing else does: every invariant and every action property of
the passing runs is a theorem, and so are the parts about safety of `LookupTold`, `DialogFollows` and
`ArchiveListed`.

## 6 What the models show of the code

The properties hold of the code as it is used in the runs. In the following
cases the code does not keep them, and the runs leave the case out by a
constant or by a clause of the property, which the comments name. Each is
reproduced by the change given.

| Code | What happens | To reproduce |
|---|---|---|
| `wsock32-client-shared.cpp:2557` | `WSAEnumNetworkEvents` takes the recorded events and then resets the event object: what the worker records and signals in between is no longer signalled, and with two kinds of event nobody enumerates again. | `EventsObject.cfg` with `{{"READ", "CLOSE"}}` as the interest: `WaitingAnnounced` fails. |
| `wsock32-client-shared.cpp:3061` | `FIONREAD` is asked after `select`; if the program has read meanwhile, no data is taken for the end of the connection, and FD_CLOSE is announced for a live one. | `EventsWindow.cfg` with `Disciplined = FALSE`: a socket whose link is up was told of CLOSE. |
| `wsock32-client-shared.cpp:2999` | Over ws2_32 one closed handle makes the worker's `select` fail, its sets stay as they were asked, and every socket in them is taken for ready: FD_CONNECT is announced for a connect that was not made. | `EventsWindow.cfg` with two sockets, one thread and `Backend = "ws2_32"`: `ConnectTruth` fails. |
| `wsock32-client-shared.cpp:207` | The worker records and posts what it found for a copy, also after the socket was closed. | `EventsWindow.cfg`: `io` of a closed context is not always empty. |
| `ws2_32-rpc-client.cpp:921` | The server frees a handle before the process marks its context: another thread given the same handle keeps the old context, which is then marked as closed. | `EventsWindow.cfg` with `Reuses = TRUE`: an open socket has a closed context. |
| `wsock32-client-shared.cpp:3196` | The operation that is done is removed, by the address of its OVERLAPPED, after its completion routine ran; if that started the next one with the same OVERLAPPED, the next one may be removed, with its datum. | `TheCareful` with `reissues`, and `Careful` without it: `OpsEnd` fails. |
| `wsock32-client-shared.cpp:3288` | A result is stored before its event is set: a program that polls takes it, uses OVERLAPPED and event again, and the late signal is for the next operation. | `TheCareful` not `patient`, and `Careful` without it: `ToldMeansDone` fails. |
| `ws2_32-rpc-client.cpp:912` | `closesocket` leaves pending operations to the worker's `select`, which the zero-tier backend answers by skipping the handle: they never end. | `TheCareful` over "zero-tier": `OpsEnd` fails. |
| `wsock32-client-shared.cpp:65` | A handle that comes back while an operation of the closed socket is pending meets its queue. | `TheCareful` not `tidy`, and `Careful` without it: `ReadsInOrder` fails. |
| `wsock32-client-shared.cpp:113` | `temp_disable_virtual_blocking` puts back what it found, also when the program has cleared the mode meanwhile, which it cannot tell from its own doing, or has set it after the worker looked. A blocking call of another thread that looks at the flag while it is disabled is told WSAEWOULDBLOCK. | `ModeKept` without `~clashed`; `Return` with `asked` for `Blocking`: `BlockingWaits` fails. |
| `ws2_32-rpc-client.cpp:811` | A second `connect` on a connected socket is refused by the backend, and the client takes the socket for unconnected from then on. | `Blocking.cfg`: a socket whose link is up is not always "connected". |
| `ws2_32-rpc-client.cpp:573` | Each round of a blocking call waits in `select` with the time-out of `SO_RCVTIMEO` if there is one, and then goes around again: the option does not end the call. | By reading; `CallsEnd` promises an end only when there is something. |
| `ws2_32-rpc-client.cpp:122` | The request of a call that was given up stays in the server's inbox, and its sections are used again: it is carried out later, on whatever a call that has the sections by then put there, so that a `sendto` may go out twice or parameters be read as those of another request, and its results are written there before that call is served. The answers of the calls that wait are their own all the same. | `OwnParameters` without `pc[serving.call[1]] = "waiting"`. |
| `ws2_32-rpc-server.cpp:55` | A process that ends without WSACleanup leaves views in the server; one that gets its id names its sections as it did, and its requests are read from the sections of the process that is gone. | `OwnParameters` without `~stranded`. |
| `ws2_32-rpc-server.cpp:136` | The grace timer destroys the window after a minute without a message, whatever sockets the server holds: a program that only waits for its peer loses them. A TODO in code that is not in use (574) would ask for connections first. | `Elapse`: a process may hold sockets of a server that is gone. |
| `ws2_32-rpc-client.cpp:216` | `WSAStartup` of a process that finds a window succeeds while that server is still joining, and nothing answers until it is online. | `Lifecycle.cfg`: a process that has started may have a server that is "joining". |
| `wsock32-client-shared.cpp:1026` | The value of the event's handle may be given again while the message of the look-up is queued: its answer is taken for the next look-up's. Cancelling after the second look at the event, or after the answer, has no effect or hits another event. | `LookupTold` without `reused`. |
| `wsock32-client-shared.cpp:3340` | What is found of a service, or of a protocol, is in one place for all threads: of two look-ups at once the first may write the answer of the second into its program's buffer. | `LookupTold` without `mixed`. |
| `ws2_32-rpc-server.cpp:337` | A transfer of no bytes takes no section, and the server refuses it as one whose section it does not find. | The calls "empty" of `RpcTransport`. |
| `wsock-backend-zero-tier.cpp:1083` | A handle that is closed between two slices and given again is answered for the new socket. | By reading; `handles` are names in the model. |
| `wsock-backend-zero-tier.cpp:194` | `WSACleanup` has no count: the first one stops the node for every process of the server. | `Cleanup`. |
| `wsock-backend-zero-tier.cpp:136` | A start-up that was joined but not online succeeds with the status FALSE; one that is neither leaves the node running. | `Joined`. |
| `wsock-backend-zero-tier.cpp:473` | Whom a broadcast should reach is kept per thread, so that who was heard from on another thread is not reached; subnets are computed once, and stay empty if there was no address yet. No property is about it, for nothing in the code says whom a broadcast must reach. | `peers` of two threads; `Default`. |
| `wsock-backend-zero-tier.cpp:790` | A broadcast without bytes that went out is answered as one that did not. | `Broadcast`. |
| `app-update.cpp:80` | Week 53 of a year counts as week 1 of the next, which then is no update. | `WeekTotal`. |
| `app-update.cpp:153` | The flag is set before the version, and look-ups of two attempts write the same version: what was offered is not what is installed, or the folder's name is not what it holds. | `InstalledIsLater` without `raced`, which is TRUE also when look-ups of a channel overlap. |
| `siege-studio.cpp:448` | Folders of versions are compared as text: 26.9 is later than 26.10, the extraction is skipped and no new window comes. | `NoWindowLeft`, a part of `WindowStays`, without `target`. |
| `siege-studio.cpp:461` | The new version is extracted to the folder of the channel of the executable, not of the one chosen. | `Installation`. |
| `siege_main_window.cpp:563` | A window closed while an update is in progress does not end the program, and nothing does so afterwards. | `NoWindowLeft`, a part of `WindowStays`, without `updating`. |
| `siege-studio.cpp:299` | The core module is freed while the callback of the progress dialog, which is its code, may still be due. | `CloseDialog` after `Free`. |
| `exe_view.launch.cpp:593`, `input_injector.cpp:138` | A second launch replaces the injector, whose destructor ends the raw-input registration that the new one has just made: the end of the second game is never noticed and the launch stays disabled. A failed launch stays disabled too. | `LaunchComesBack` without `sink # {}`. |
| `exe_view.launch.cpp:303` | `std::partition` runs on the view's own list, of which the tables hold indices. At the launch the rows after the first entries of the mouse stand for other entries: the keys of the mouse are not among the rows that are handed to the game, entries of the controller are handed over as keys, with index 0, and a change of a row after a launch changes another action. | `PlayedAsChosen` without `ShowsWhatItKnows`; `KeyArgs`. |
| `exe_view.launch.cpp:351` | The key that stands in for an input may be the entry that stands for no row, or another input of the controller, if the action's own row was changed. | `Fallback`. |
| `exe_view.launch.cpp:441` | A controller that comes second takes the backend of the game from the first too; one the studio does not know, alone, leaves the inputs to nobody. | `SeenByStudio`, `TakesForAxes`. |
| `id-tech-shared.cpp:337` | The left stick of Quake III's family is bound as the arrow keys, which no launch gives up. | `AxisName3`; `NothingStale` over all names. |
| `exe_view.launch.cpp:480` | An input that only some of several controllers have is handed over both to the game and, as its key, to the injector, which plays it for every controller. | `PlayedAsChosen` without `OnAllOrNone`. |
| `exe_view.launch.cpp:350` | The key is looked up by the action alone: of an input with two actions that have the same key, the key is found for both. | `PlayedAsChosen` without `HasKeyOfItsOwn`. |
| `id-tech-shared.cpp:843` | An axis that has no name of its own takes the name of the button with its number. | `ButtonsHold` without its condition on axes. |
| `id-tech-shared.cpp:304` | All four directions of the pad have one name in the older games. | `DpadName`. |
| `id-tech-shared.cpp:371` | The triggers of a joystick, buttons 0 and 1, are set as axes in the older games. | `TakenForAxis`. |
| `sin.cpp:102` | The names are given up after they were bound. | `ButtonsHold` without `game.first`. |
| `call-of-duty-uo-mp.cpp:92`, `call-of-duty-uo-sp.cpp:91` | Quake III's names are given up and Quake II's bound. Quake Live gives up none. | `NothingStale` without its conditions. |
| `space-trader.cpp:83` | The file of bindings is run but never written. A click on a row of its controller table asks `bound_inputs` for what it does not hold, and throws. | `runs` in `GameOf`, `ChangeInput`. |
| `id-tech-shared.cpp:209` | Keys of digits are read and never written. | By reading. |
| `id-tech-shared.cpp:247` | `index > size()` lets the index past the end through. | By reading. |
| `exe_shared.cpp:340` | A setting that is a text is switched on with "0.0.0.0", Daikatana's controller among them. | `Switch`. |
| `exe_shared.cpp:2434` | The preference remembered from the game before may be one that the next does not offer. | `Reopen`, a game without "listen". |
| `exe_shared.cpp:777` | A game whose listen setting has values of its own to choose from (Allied Assault and its kin) is not told that it is to host. | `Multiple` in `ApplyListen`. |
| `exe_shared.cpp:3042` | A launch whose network is empty leaves the identity and the address of the launch before in the environment. | `Environment`; `EnvironmentFits` without `data.network # ""`. |
| `id-tech-2-0-shared.cpp:137` | A client with a map that joins is told to listen as well, by a word without its dash. | `CommandLine`; `Added`. |
| `id-tech-shared.cpp:981` | The maps of a folder are read once: while the extension stays loaded, a second folder of the game is offered those of the first. | `Listed`. |
| `alice.cpp:225` and others | The seven resolutions offered all stand for mode 1. | `Placeholders`. |
| `exe_shared.cpp:2541` | The address of the game is stored under the network set when it ends, not the one it joined. | `SetIp`. |
| `input.cpp:965` | A stick that comes back to exactly 0 is reported as fully out the other way; one at -32768 has been at 1; one exactly on the dead zone neither presses nor releases; the trigger's old value is its new one. | `KeysFollow` without `~odd`. |
| `vol_shared.cpp:120` | A second load clears the contents without the lock and waits for the first, which waits for the window: both wait for ever. | By reading; one load per view. |
| `vol_view.win32.cpp:637` | The work item that extracts all uses the view after it may have been closed. | `WriteFile` is only enabled while it is open. |
| `vol_view.win32.cpp:801` | A row that is no longer selected is added to the selection. | `ItemChanged`. |
| `external_utils.cpp:843` | A cabinet of Microsoft's with folders is listed by 7-Zip; the list is kept, and at the next folder the first tool, which finds it kept, is remembered: from then on only that one is tried for extraction. | `MCStored` with `mscab |-> MCGroups`: `ArchiveListed` fails. |
| `pak_resource.cpp:205` | Only the folder of a file and the one above it are added: a file three folders deep is not reached if no other file makes the outer folder known. | `MCStored` with such a file: `ArchiveListed` fails. |
| `zip_resource.cpp:271` | An entry of no size is a folder, so an empty file is one too; an archive whose folders have no entries shows only the files at its top. | `MCStored`, `zip` without a `Mark`: `ArchiveListed` fails. |
| `cyclone_resource.cpp:133` | Files that are in no folder are not shown. | `MCStored`, `cln` with a file at the top: `ArchiveListed` fails. |
| `rsc_resource.cpp:125` | With more than 128 files the reference to the previous entry is to memory that was given back when the list grew. | By reading. |
| `trophy_bass_resource.cpp:148` | `set_rbx_stream_position` moves over 4 bytes but takes a stream 28 bytes on, the size of another format's header, to be in place. | By reading. |
| `game-unpack.win32.cpp:317` | `is_done` is true until the worker begins: a dialog closed before lets the program end. A worker that waits for an answer of a closed dialog waits for ever; `main` leaves it after ten seconds. | `Exit`. |
| `game-unpack.win32.cpp:580` | Of a game of several discs one of which is missing, the next one by name that is there is taken for it, and its rules are made to read from that; after the last one `equal_range().first` is the end of the map, which is dereferenced. | `Taken`, `CheckNames`. |
| `game-unpack.win32.cpp:747` | What reading a disc, going through a folder or creating one throws is caught by nobody: the program ends. | `Crash` in `Gather`. |
| `game-unpack.win32.cpp:432` | What was found for one module stays in the paths for the next. | `NextModule`. |
| `default_view.cpp:823` | Whether a game is around a fallback and its entry are two steps: two rounds may list a fallback beside the game. | `Studio.cfg`: `editor` and `game` are both detected, `editor` second. |

The run that must fail (section 3) is the case in which a comment
of the repository says otherwise.

## 7 What is not modelled

The map names nearly a third of the lines of the implementation. The larger part
of the rest has no behaviour that a state machine would say more of than the code does:

- *File formats* (`content`) beyond what an archive lists, *drawing and playing* (`presentation`), *the
  converter*: sequential functions of files, two fifths of all lines. What is correct
  there is a matter of formats, byte by byte.
- *Tables of offsets, key names, installations* (`extension`,
  `installation`): constants. The extensions of other games than id Tech's read
  and write bindings as those do; they have formats and names of their own.
- *Hooks into games and input filtration*: their effects are in foreign code.
- *The window library*: a submodule that is not in the repository. What depends on
  when it deletes a view cannot be said.
- *Columns, filters, menus, tabs, layout, settings* of all views; *the
  controls and wrappers of the platform library*: without concurrency or
  state that outlives a call.
- *Conversions of names, addresses and options* of Winsock: functions of their input.
- *QoS, FD_OOB, WSAIoctl, and what the socket options do*: forwarded, or flags that go
  the way of those that are modelled.
- *The worker thread's restart by two threads at once*
  (`wsock32-client-shared.cpp:3316`): a data race on a `std::jthread`, whose
  outcome is not a set of states of this program.
- *What the ZeroTier library and the ws2_32 library do*: external.
- *unvol*: the installer's dialog and worker with fewer steps.

Components and their status are listed in `PROJECT.json`.

## 8 Plan

Done: all of section 2. What would be next:

1. A second load of a `VolumeView`, and the palette search of the 2D view, once
   the window library's part in the end of a view is known.
2. The order of installing and removing the hooks of the input filtration.
