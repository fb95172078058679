# A TLA+ model of low-level-loader

The loader delivers a licensed JAR to a machine and runs it there. A gateway asks a
license provider, signs a manifest and serves the artifact; a native core verifies
both and publishes the JAR in a private directory; a launcher, a Paper plugin or a Java
bootstrap runs it and gives it back. This directory holds TLA+ modules of those parts,
the configurations TLC checks them with, and proofs checked by TLAPS. `PROJECT.json`
lists, for every definition, the source lines it stands for.

## The parts of the system

| Part | Source | Module | State of the model |
|---|---|---|---|
| Runtime directory (POSIX) | `client/native/src/rymga_platform_posix.c`, `rymga_loader.c` | `RuntimeDirectory`, `ArtifactStore` | modelled, proved |
| Plugin directory (POSIX) | `rymga_platform_posix.c` | `PluginDirectory` | modelled, proved |
| Gateway | `gateway/` | `Gateway` | sessions, downloads, restarts; proved |
| Acquisition | `client/native/src/rymga_loader.c` | `Delivery` (with `Gateway`), `Bridge` | all but curl's options; proved |
| Growing buffers | `rymga_loader.c`, `launcher/rymga_loader_windows.c` | `Buffer` | modelled, proved |
| Wire protocol | `protocol/`, `rymga_loader.c` | `Codec`, `Conversions` | both messages, both readers, text and file names |
| Launcher (POSIX) | `client/native/launcher/rymga_loader.c` | `Launcher` | prompt, fork, signals, release; proved |
| Windows platform | `client/native/src/rymga_platform_windows.c` | `WindowsStore` | both directories, without access control lists; proved |
| Windows launcher | `launcher/rymga_loader_windows.c` | `WindowsLauncher` (with `WindowsStore`), `Conversions` | prompt, control events, host, release, quoting; proved |
| JNI bridge, Java API | `client/native/jni`, `NativeLoader.java`, `NativeArtifact.java` | `Bridge`, `Conversions` | modelled, proved |
| Application bootstrap | `ApplicationBootstrap.java` | `Bridge` | the child process and the release; proved |
| Bundled native library | `BundledNativeLibrary.java` | `NativeInstall` (in `Bridge`) | installation and load; proved |
| Paper bootstrap | `client/paper/` | `PaperBootstrap` | one life of the plugin; proved |
| Configuration, credentials, headers, examples | | none | no behaviour of their own to check |

How they meet: `Launcher` and `PaperBootstrap` hold an artifact handle, whose life in
the file system is `RuntimeDirectory`; the launcher's preload mode adds a copy in
`PluginDirectory`; what an acquire says to the gateway is `Delivery`, its messages are
`Codec`, and the memory they are built in is `Buffer`. `Delivery` extends `Gateway`, so
the two ends are composed. `Bridge` extends `NativeInstall`: the library a JVM has
installed and loaded is what its threads then call. `WindowsLauncher` extends
`WindowsStore`: launchers and their hosts over the two directories. The other modules are composed by what they assume of each
other: `Launcher` and `PaperBootstrap` treat an acquire as one step that succeeds or fails.

## The modules

**RuntimeDirectory.** Loader processes of one user share a directory. `mine` is the
`rymga-loader-XXXXXX` a process fills, holds or removes; `marker`, `owner`, `created`
are its `.rymga-owner`; `part` and `jar` the partial and the published file. There is
one action per system call that changes the directory, so a crash falls between any two
of them. A file is absent, wrong, right in the page cache or right on the disk, and a
power loss turns the third into the second. Renames and unlinks are taken to survive a
power loss in order: only contents are lost. The environment kills processes, reuses
pids, sets the clock and puts foreign files into directories. `owed`, `leaky` and
`crashed` are history. `ArtifactStore` is the promise: artifacts appear whole, are
leased, and leave only when nobody leases them. `Shelf` and `Lease` are the mapping.

**PluginDirectory.** Directory entries refer to inodes, and the code compares inodes.
`copy` is one run of `materialize_plugin`; its anchor, marker, inode and jar name are
kept as `rymga_platform_plugin` and the marker keep them. The check of an identity and
the unlink that follows are two actions. Two constants say what the environment does:
`Reuse` of inode numbers, and `UserWaits` (the user edits the directory only while no
launcher works in it). `raced` and `cut` are history: a launcher about to unlink a name
the user has just taken, and a copy whose launcher died before its marker was complete.

**WindowsStore and WindowsLauncher.** The same two directories, one action per Win32
call, where a file that is open cannot be deleted. A file is open while its launcher
writes it, while a cleanup reads it, and while the host runs from it. A launcher has
one temporary directory and one plugin copy, known by its name; `dest` is the file under
the jar's name, `target` and `todo` are the sweep's place. `control` follows a console
event through the handler's own thread, and `closed` records that the launcher was
ended by one that the handler does not claim. `refused`, `leaky`, `bare` and `raced` are
history: what could not be deleted, a failed `strdup`, a copy whose launcher died
before its record was whole, and a name taken while a launcher was about to delete it.

**Gateway and Delivery.** A request is known by its nonce. Digests and signatures are
perfect. `Gateway` has the handlers, the file behind the catalog's channel, restarts
with another key or artifact, and a provider that accepts, refuses or fails.
`Delivery` has the steps of `rymga_loader_acquire`, replies that are lost, break off or
belong to another request (TLS excludes altered bytes), two clocks with a constant
difference, and curl's deadline.

**PaperBootstrap.** The server thread and the license thread, one action per step at
which the other may come in. `PluginDisableEvent` and the disabling it announces are two
steps (`OnPluginDisable`, `GuestDisabled`): in between the protected plugin is `disabling`,
still enabled and without its jar. What it assumes of Paper is in the module's header;
those definitions are marked external.

**NativeInstall.** JVMs with one data directory. `matches` is two steps, the existence
and the hash. A move onto an existing file replaces it or throws, as
`Files.move(ATOMIC_MOVE)` may. Any file operation may fail and any JVM may die, but
`finally`'s own deletion is taken to work.

**Bridge.** Threads of the JVM that has loaded the library call `acquire` or
`acquireEmbedded`. `valid` and `pending` are the local variable and the pending
exception, `memory` the buffers allocated, `secret` where the license can be read, `curl`
the atomic `curl_state`. Each conversion succeeds, fails, or fails with an exception. A
call that has returned an artifact goes on as the application bootstrap does: start,
wait, and after an interruption destroy, wait for five seconds, kill and release.

**Launcher.** One process, its child, and signals at every step. SIGINT and SIGTERM
have one handler variable; SIGHUP and SIGQUIT, which the prompt treats alike with
SIGTSTP, another. The `tcsetattr` that restores the echo may fail, and one that waits is
interrupted by a signal, because the handlers are installed without `SA_RESTART`; `left` is
history and says which of the two left the echo off.

**Buffer.** `b_reserve`, `b_put` and `b_free` of the core, and `reserve` and `append_char`
of the Windows launcher (`wide`), which doubles without looking at the limit. A growth
loop is one step per iteration.

**Codec and Conversions.** For messages a byte is a digit of base 4, lengths and
integers have two digits, with the two's complement of the code. Byte 0 stands for
what no text may hold, byte 1 for text that is no identifier. There both readers use
the same description of the fields' order, so that the agreement shown is about
lengths, boundaries, signs, truncation and trailing bytes, not about the order of
fields. What texts and names may hold is another question, and `Conversions` answers it
over real code units and bytes: UTF-16 to UTF-8 and back, the text and file name rules
of both languages, the hexadecimal record of a file name, and the quoting of a Windows
command line with the splitting it must survive. `Codec` has a `form` of message
for each. The JDK's decoder and the C runtime's splitting are external, written
from their documented tables. The caps on whole messages are left out: the longest
request has 4536 bytes of 8192, the longest manifest 839 of 4096.

Operators whose comment begins with "Mutant" are deliberately wrong variants of the
definition after them. No specification uses them; each shows that a property notices
the mistake.

## What the runs check

| Run | Properties | What it shows |
|---|---|---|
| `RuntimeSharing` | `ArtifactStaysRecorded`, `NoLeakWithoutCrash`, `CleanupErases`, `LiveDirectoryPrivate`, `ImplementsStore` | three processes around one directory: owners and cleaners, crashes and power loss |
| `PluginShared` | `PublishedIsRecorded`, `CleanupErases`, `LeftoversRecorded`, `UserFilesKept` | crashes, reused inodes, a user who edits at any time |
| `DeliveryRaces` | `DeliveredIsSigned`, `GrantIsShort` | two acquires, two versions of the artifact |
| `DeliveryClocks` | `WindowsAgree`, `AcquireReturns` | one acquire, clocks up to two apart, key rotation |
| `PaperShutdown` | `ReleasedOnce`, `HeldWhileEnabled`, `ReleasedUnlessUnrun`, `WipedUnlessDropped`, `AcquireSettles` | every interleaving of one life of the plugin |
| `InstallRaces` | `LoadedIsVerified`, `SomeoneInstalls`, `CallsLeaveNothing`, `CurlInitializedOnce`, `ApplicationHasJar`, `CallsReturn` | three JVMs installing at once, two threads calling the library in one of them |
| `LauncherSignals` | `EchoRestored`, `ReturnsClean`, `HostKeepsJar`, `LauncherEnds` | up to three signals anywhere |
| `WindowsHosts` | `EchoRestored`, `HostHasJar`, `ArtifactRecorded`, `LiveFilesPrivate`, `UserFilesKept` | two launchers, their hosts, console events, files in use and a user |
| `BufferGrowth` | `CopyFits`, `GrowthEnds` | a limit that is no power of two, both buffers |
| `CodecAgreement` | `ReadersAgree`, `SignedBytesAgree`, `MessagesUnderstood`, `TextRoundTrip`, `ArgumentsKept` | messages and all their one-byte neighbours; texts, names and arguments around every boundary of the rules |

The configurations do not list the type invariants (`TypeOK`, `BridgeTypeOK`), the inductive
invariants, and `HandleOwnsFile` and `PublishedIsVerified`, which are proved. TLC found all of
them to hold on these instances as well; each can be added to the configuration.

Two runs show where the code does something else than the documentation says:

| Run | Property | What happens |
|---|---|---|
| `PluginOverlap` | `LiveJarsKept` | a cleanup's pending unlink removes the jar another launcher has just published under the name |
| `PaperCancelledTask` | `ReleasedOnShutdown` | a shutdown cancels the task that alone knows the artifact |

Elsewhere a property names the exception the code has:

- `ReleasedUnlessUnrun`: the artifact is released unless the host never ran the task.
- `WipedUnlessDropped`: the license is wiped unless a shutdown dropped the acquire
  before it started, and its `finally` with it.
- `SomeoneInstalls`: one JVM may delete the library another has just installed, and a
  racing JVM may then fail; without faults they never all do.
- `UserFilesKept` (POSIX): a file of the user's goes if it was given the inode number of
  a copy that is gone but still recorded, or if the user put it there between the
  identity check and the unlink.
- `LeftoversRecorded`: a launcher that dies before its marker is complete leaves a file
  without a record.
- `ApplicationHasJar` speaks of a running application. One that had to be killed may
  outlast its jar, because `launch` does not wait for the end of the kill.
- `EchoRestored` (POSIX): nobody looks at the result of the `tcsetattr` that restores the
  echo, so a signal during the call ends the launcher with the echo off. Such a launcher at
  least starts no host; one whose `tcsetattr` failed for another reason may.
- `HeldWhileEnabled`: the event comes before the plugin's `onDisable`, which therefore runs
  without the jar, unless it is the bootstrap's own `onDisable` that disables the plugin.
- `EchoRestored` (Windows): the handler may run before the prompt hides the echo and end
  the process after it.
- `HostHasJar`: a closed console ends the launcher but not the host, and the jar is then
  a dead launcher's; and a pending delete of another launcher may hit the jar, as on POSIX.
- `ArtifactRecorded`: the marker goes although the jar, in use, could not be deleted; a
  failed `strdup`; a launcher that dies before its record is whole.
- `UserFilesKept` (Windows): the user's file was put there between compare and delete.

The exceptions of `LeftoversRecorded`, of both `UserFilesKept`, of both `EchoRestored` and of
the Windows `HostHasJar` and `ArtifactRecorded` were removed one at a time, and TLC
found a violation each time: the code really does what each of them names.

A signal that reaches the POSIX launcher before `child_pid` or the child's group is set
has no effect. `ForwardSignal` has that step; no property is stated about it.

## Bounds

Three processes are an owner, dead or alive, and two cleaners; one directory is enough
where the question is who may touch it. Any number of directories, and a process that
cleans one while it fills its own, is left to the proofs. Times 0 and 1 with a maximal
age of 1 make every directory either fresh or old. The scan limit of
`RuntimeSharing` has no effect on its one directory; that of the plugin runs, 2, has when
all three copies are recorded. Plugin runs have up to three copies, so that a dead launcher's, a live one's and a new one
coexist, and at most one inode more than that, so that numbers must be reused when
`Reuse` allows it. `MaxTime` leaves room for one acquire with both its timeouts.
Two launchers on Windows are one that is dead or alive and one that cleans up; their
scan limit of 2 is never reached, so what the limit does is seen on POSIX only. Three
JVMs are one that has installed, one that deletes and one that looks; two threads are
one that initializes curl and one that waits. Three signals cover one in the prompt, one before and one after the fork. The buffer's
limit 11 with first capacity 2 makes the loop double, stop at the limit and refuse.
Messages vary in one field at a time over all its values, past its longest length;
then one byte is changed, inserted or removed, or the message breaks off. Texts are made
of the ends of the ranges the encodings tell apart, alone, in twos and after or before a
surrogate pair; file names grow past `FilenameMax`, which stands for 255, and are
changed in one character; arguments are all words of up to four characters of quote,
slash, blank and letter, and pairs of words of two.

Symmetry is used for pids, directory names, anchors, inodes, Windows launchers and nonces, which are
compared for equality only. It is used for no run with a liveness property.

## Fairness

`Delivery` assumes that time passes and that curl ends a transfer at its deadline
(`CURLOPT_TIMEOUT`); nothing is assumed of the gateway, the provider or the network.
`PaperBootstrap` assumes that the license thread and a started `onDisable` go on, and
that a ticking server runs a queued task. `Buffer` assumes that the loop goes on. `Bridge`
assumes that the system runs every thread inside a native call, and that curl's transfer
ends (its timeout, shown by `AcquireReturns`); it assumes nothing of the application.
`Launcher` assumes that the launcher itself goes on, and nothing of the host or the
signals. No other module states fairness.

## What is proved

For every set of processes and names, every clock, age and scan limit
(`RuntimeDirectoryProofs`, from `RuntimeAssumption`): `HandleSafe`, `PublishedSafe`,
`RecordedSafe`, `DirectoryPrivate`, `NoLeak`, `CleanupComplete` and `Refinement`, without
the bounds of the run. They rest on `Invariance`, whose
invariant `IInv` joins three things:

- `TypeOK`;
- `Separate`: a directory in use belongs to one process, carries its pid in any marker
  it has, and no cleaner is at work in it. `HandleOwnsFile` needs this: a cleaner
  enters a directory only if the marker's pid is dead, and the pid of a user is not;
- `Contents`: what a directory holds is fixed by the step its user or its cleaner has
  reached. Without it nothing says that the rename moves durable bytes, or that a
  marker goes last.

`NoLeak` is inductive relative to `IInv`. `CleanupComplete` needs one more invariant,
`Owed`, about the entries a scan has still to visit. `Refinement` shows that every step
changes `Shelf` and `Lease` as `ArtifactStore` allows or not at all.

For every limit, first capacity and set of blocks (`BufferProofs`, from
`BufferAssumption`): `CopySafe`. `CopyFits` alone is not inductive; `IInv` (`LoopBounded`)
adds that within the loop the capacity reached lies between the old one and the largest
allocation, which is twice the limit for the Windows buffer, and that the room asked for
is within the limit.

For every number of signals (`LauncherProofs`, from `LauncherAssumption`): `EchoSafe`,
`ReturnSafe` and `HostSafe`. The invariant `IInv` (`Invariant`) ties each of the three to the
program counter: echo is off only where both handlers catch what would end the
launcher or after a failed restore, a signal that made it fail is still to be raised
again, the license is readable only up to the acquire, and from the acquire to the
release the launcher holds what the host needs.

For every set of JVMs and of threads (`BridgeProofs`, from `BridgeAssumption`): `LoadSafe`,
`InstallSucceeds`, `CallsSafe`, `CurlSafe` and `ApplicationSafe`. They rest on
`Invariants`, which joins two invariants. `InstallInv` says that once a JVM is past the
deletion no altered file comes back, and that, while nothing fails, there is always a JVM
still installing when the library is not there: whoever deletes another's library
installs its own. `BridgeInv` says what memory, license, exception, handle and child
each step of a call may have, and that nobody gets past `curl_ready` before `curl_state`
is 2 or 3. A
step of the installation leaves the calls alone and the other way round, and a step of
one thread changes what another has only through `curl_state`.

For every set of launchers, names, copies and inodes, with and without reuse of inode
numbers and a user who waits (`PluginDirectoryProofs`, from `PluginAssumption`):
`PublishedStaysRecorded`, `CleanupLeavesNothing`, `LeftoversAreRecorded` and
`UserFilesAreKept`. No run could say this much: every launcher may be in another step of
another copy. `IInv` (`Invariance`) has, besides the types,

- `Filed`: a copy makes one inode, which is under its anchor or, whole and recorded,
  under the jar's name, so an inode whose `birth` is the copy is the one it recorded;
- `AtWork`: what the steps of a launcher may rely on about its own copy, first of all
  that it is not published before `linkat` and that from then on its marker is whole;
- `Cleaning` and `Owing`: a cleanup has passed by no entry of the copy it is removing,
  and each copy it owes is gone or still to be looked at; a launcher that is not cleaning
  up owes none. Both need that no launcher goes on with a copy whose process is dead;
- `Recorded` and `Decided`: who is named by the record of a leftover file, and what may be
  under the name that is unlinked next. A file of the user's can be there only if its
  number is the recorded one or it came after the comparison.

The proof has one lemma per system call. All but `link`, `mkstemp` and a user who adds a
jar make no file (`Shrinks`) and leave every launcher but the one that takes them where it
was (`Stays`). `Undisturbed` says once that what a launcher relies on outlives such a step,
so the lemmas have to show only what a step does to the launcher that takes it.

`LiveJarsKept` is not among them: `PluginOverlap` refutes it.

For every set of requests, keys and contents, every clock difference, TTL, timeout and
skew (`DeliveryProofs`, from `GatewayAssumption` and `DeliveryAssumption`): `DeliversSigned`,
`GrantsAreShort` and `WindowsFit`. What the client may conclude from a manifest depends on
what the gateway did before it signed it. So `IInv` (`Invariance`) says what is settled
about a request when its handler has reached a step (`GatewayKnows`: signed last, once,
after the provider's yes, with the times at which the handler began), and what the acquire
that made the request knows (`ClientKnows`: when it stamped the request, that its POST is
not overdue, and from the checks on that its manifest is the one signed for it).
`WindowsFit` is about the settings in which the gateway's skew is at most the client's and
the timeout at most the TTL; `DeliveryClocks` is such a setting.

For the interleavings of the server, the license thread and the scheduler, of any length
(`PaperBootstrapProofs`): `ReleasesOnce`, `HeldWithPlugin`, `ReleasedUnlessTaskUnrun` and
`LicenseIsWiped`. The heart of `IInv` (`Invariance`) is `Custody`: exactly one of the license
thread, the task and the field answers for an open handle. None of the four properties
is inductive without it, because each thread relies on where the other has left the
artifact.

For every number of launchers and every scan limit (`WindowsProofs`, from
`StoreAssumption`): `EchoIsRestored`, `HostsHaveJars`, `ArtifactsRecorded`,
`LiveFilesArePrivate` and `UserFilesAreKept`. `IInv` (`Invariance`) is a conjunction over the
launchers:

- `Echoing`: where the echo may be off, and how far a control event can have got;
- `Targeting`: a launcher removes its own files or those of one that has ended, and what
  the steps it has done were to delete is gone or was in use;
- `Filing` and `Copying`: what is in the temporary directory and in the plugin directory
  of a launcher at each of its steps, and, once it has ended, what record is left;
- `Keeping`: the host runs only under a launcher that waits, or was closed.

A removal by one launcher of what another left is why `Targeting` speaks of two
launchers, and why the others have to hold of a launcher that has ended, too.

Here too there is one lemma per step. `Onward` says that no step makes files of a launcher
that has ended, `Stays` that it leaves the other launchers their files and takes the
marker of one that has ended last; `Undisturbed` concludes for all launchers but the one
that moves. `DieKeeps` stands for the three ways in which a control event ends a process.

Only model-checked: the liveness properties (`AcquireReturns`, `AcquireSettles`,
`CallsReturn`, `LauncherEnds`, `GrowthEnds`), because the prover has neither fairness nor
ENABLED; and the properties of `Codec` and `Conversions`, which are about what recursion
over sequences computes, and would need induction over data.

## What is not modelled

- The options of the launchers' command lines and the hexadecimal keys in them, the
  provider's JSON, `config.yml`: parsing that succeeds or fails.
- Cryptography and TLS, taken as perfect; the options given to libcurl.
- Permissions of files and directories, on Windows the access control lists: every
  process belongs to one user.
- In a stale temporary directory, a single `.jar` of the user's that takes the place of the
  loader's own: the cleanup would take it for the artifact. The modules know foreign files
  only as files that make the cleanup leave the directory alone.
- A protected plugin that somebody enables again after it was disabled.
- On Windows: file indices that are used again, so that the last comparison of a failed
  `materialize_plugin` never finds its own file; an exit code of 259, which looks alive.
- A POSIX host that outlives a killed launcher, seen from another launcher's cleanup; the
  Windows modules have that composition.
- Reuse of process group numbers, and a second `onEnable` of one Paper instance.
- The order of the fields in the two readers, which share one description of it.
- Headers, injected configuration, `PaperCredentials` and the examples: declarations and
  formatting, with no state to check.
