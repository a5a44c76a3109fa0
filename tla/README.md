# Verification of GUB

GUB (the Grand Unified Builder) cross-builds a tree of packages for one target
platform at a time: `bin/gub` works out which packages a request needs, decides
by checksums which of them must be rebuilt, builds those stage by stage, packs
them into `.gup` balls and installs the balls into a system root that later
builds use. Everything it knows between two runs is in files: stamp files,
checksum files, package headers and a small package database. Builds take hours
and are interrupted all the time, so the interesting questions are what those
files still say after a crash, an edit or a second process, and whether the
next run draws the right conclusions from them.

This directory models that core in TLA+, with what feeds it, namely recipes and
sources, and what it feeds, namely installers and releases. TLC checks it on small
instances, and TLAPS proves part of it for all instances.

## The system

| Component | Code | State | Operations | What is hard | Module |
|---|---|---|---|---|---|
| Build driver | `gub/buildrunner.py`, `bin/gub` | computed checksums, failed checksums, options | one run: checksums, removal of outdated packages, builds, installation | decisions are taken before the first build and used after many; any step may be the last | `BuildRunner` |
| Staged builds | `gub/build.py`, `runner.py`, `commands.py`, `guppackage.py` | stamp file, source and build trees, balls, headers, checksum file | stages, packaging, clean | commands are only listed by `Build.build` and executed later; resumed builds | `BuildRunner`, `Recipe` |
| Recipes, settings, dictionaries | `gub/context.py`, `settings.py`, `target.py`, `tools.py`, `tools32.py`, `cross.py`, `specs/lilypond.py` | attributes, the memoised dictionary, the version the source reports | expand, append, assign, list commands | two passes must list the same commands although sources and attributes change | `Recipe` |
| Package database | `gub/gup.py` | the root, `packages.db`, `files.db`, `dicts.db` | install, uninstall | four stores written one after the other | `Gup` |
| Locks | `gub/locker.py`, `with-lock.py` | lock file, descriptors | take, give back | several processes, kills, children | `Locker` |
| Dependency resolution | `gub/gup.py`, `cross.py`, `tools.py`, `dependency.py` | loaded specs, added dependencies | fixpoint loop, topological sort | cycles, termination, stopping too early, headers that list dependencies in their own way | `BuildOrder` |
| Source repositories | `gub/repository.py` | download caches, work trees | download, checksum, update of a work tree | interrupted downloads, moving branches, runs that share `downloads/` | `Sources` |
| Downloads | `gub/misc.py`, `mirrors.py` | files in `downloads/` | `download_url` | truncated files, two downloads at once | `Sources` |
| Installers | `gub/installer.py`, `bin/gib` | the installer's root and its database, `uploads/`, the installer checksum | read headers and checksums, install, strip, create, seal | no lock is shared with `bin/gub`, which replaces what is being read | `Installer` |
| Version database, releases | `gub/versiondb.py`, `test-lily/upload.py`, `lilypond.make` | version db, tags, files on the server | next build number, upload, tag, refresh | unread indexes, tags that exist, a database that is locked or torn | `VersionDb`, `Release` |
| Manual package tool | `bin/gpkg` | (the database) | install, remove, list | incomplete databases | not modelled |
| Platform tables, test script, librestrict | | | | data, or no state | not modelled |

They interact as follows. `bin/gub` calls `get_source_packages` (BuildOrder) and
passes the ordered specs to a `BuildRunner`. Its `DependencyManager` takes the
lock of the system root (Locker) and keeps it until the process ends. The runner
dry-runs every spec to compute checksums, removes outdated packages through the
manager (Gup), and for each spec in order defers the commands of its stages,
executes them, writes the checksum file and installs the packages (Gup). Before
that, and in the first stage of every build, the source is downloaded (Sources);
its checksum is part of the name of the stamp file and of the package header.
What the stages defer, and the text whose hash is the checksum, comes from the
recipe, a Python object, and the substitution dictionary of the settings (Recipe).
`bin/gib` reads the headers, checksum files and balls that `bin/gub` writes, and makes
an installer of them under a lock of its own (Installer); `upload.py` copies that to a
server and has the version database refreshed, from which `bin/gib` and `upload.py`
take the next build number (Release). Nothing calls back; components share only the
file system, and runs on different platforms only `downloads/`.

## The modules

### BuildRunner

One `bin/gub` after another on one platform. Disk: `recipe` (what the spec file
says now), `stamp`, `tree`, `ball`, `hdr`, `checksum`, `installed`. Memory, lost
when a run ends: `options`, `checksums`, `failed`, `next`, `left` (deferred
stages), `step`, `tainted`.

* `Begin`, `CalculateChecksums`, `BadHeader`: `bin/gub` up to
  `calculate_checksums`. `DryRunChecksum` is the list of commands the dry run
  defers, which leaves out stages that the stamp file says are done.
* `UninstallOutdated`, `UninstalledAll`: `build_source_packages` before its loop,
  a package at a time.
* `SkipSpec`, `StartBuild`, `StartInstall`, `Finish`: the ways into `spec_build`.
* `RunStage`, `RefusePackage`, `CreateTarball`, `DumpHeader`, `SetDone`, `Clean`,
  `Executed`: `execute_deferred_commands`, command by command.
* `BrokenChecksum`, `RenameChecksum`, `WriteChecksum`, `RemoveStamp`: the rest of
  `spec_build`, a file operation at a time.
* `KeepPackage`, `RemoveRival`, `InstallPackage`, `BadBall`, `InstalledSpec`:
  `spec_install` with `spec_conflict_resolution`.
* `Edit`, `Wipe`, `LockedOut`: what others do, namely a developer who edits a
  recipe, the README's `rm -rf`, and a second `bin/gub --fresh` that removes stamp
  files before it finds the lock taken.
* `Kill`, `FailCommand`: a process that dies anywhere, leaving a half-done stage
  or a file cut short.

A `Content` says which recipes worked in a tree since it was unpacked and whether
a stage was ever started over its own unfinished output (`torn`); a ball has the
content of the tree it was packed from. That is as much as the properties
distinguish. A recipe stands for everything the dry run of a spec lists; two
recipes have different checksums, and `SourceOf` gives the version and source
checksum that name the directories and the stamp file. For tracked sources (a
branch) the directory name does not change with the version.

### Gup

`FileManager` and `PackageManager` on one root, one action per write: `Untar`
(one path), `Fixup` (one libtool archive or pkg-config file, which still names
directories of the build platform: it is `raw`), `RecordPackage`, `RecordFile` (one
entry), `RecordDict`, and backwards
`Unlink`, `Rmdir`, `ForgetFile`, `ForgetPackage`, `ForgetDict`. `Build` replaces a
ball while the former one may be installed. `Kill` ends a call anywhere; a tar, a
repair or an unlink that raises has the same effect. The databases are opened with `anydbm`
or `dbm` (`gub/2/db.py`, `gub/3/db.py`); a write to one is assumed to be durable
and atomic, which not every back end guarantees. `tar -t` output ends in a
newline, so `install_tarball` also records the empty path; it is left out, since it
always looks like a directory to the duplicate test and is skipped on removal.

`Registry` is what the users of the database count on: packages come and go as a whole
and own their files. `SeenInstalled` and `SeenHeld` map Gup's state to it: a package
that is being removed is gone when its first file goes, one that is being unpacked comes
when `packages.db` is written; `sound` ends with the first kill. `SeenAsRegistry` says
that Gup implements `Registry` under this mapping.

### Locker

Files are `Inodes`; `name` is the one under the lock's name. `Open` creates the
file if need be, `Flock` and `Refuse` are the two outcomes of the non-blocking
flock, `Unlink` and `Unlock` the two steps of `unlock`. `Die` drops the lock unless
a child has inherited the descriptor (`"orphan"`).

### BuildOrder

`SetCrossDependencies` is `set_cross_dependencies` (`Implied`: what it adds to the
dependencies of a build; `Needed`: what it adds to `todo`) with the head of the
while loop; `Visit`, `Skip` and `Return` are the recursion of
`topologically_sorted_one` on an explicit stack; `Loaded`, `Sort`, `Finish` its
callers. `Parts` are subpackages that a command line or a recipe may name instead of a build.
Lists and dictionaries are sets, so every order is tried. A platform is
compared for equality where the code looks for a substring of the name.

`Own` is what `package_auto_dependency_dict` of `gub/tools.py` makes of the
dependencies of a spec file: `tools::libtool` becomes the libtool of the target
(`OwnLibtool`), and on a 64-bit host a dependency on `tools32` becomes one on `tools`
(`Rewritten`; `libs_archmatch` and `tools_archmatch` are empty). `Header` is what the
packages' headers name, a list made from the same dependencies by other rules. The code
tells tools from the rest by the text of a name; a build for the tools may leave its own
platform out of a name, so `Linked` keeps all names of n's own platform, which is more
than the code does. `OwnDict` are builds that `tools.py` leaves alone: those with a
`get_dependency_dict` of their own and those of the platform `system`. That Darwin takes
zlib out of both lists (`darwin.py:121-147`) is part of what `Recipes` may declare.

### Sources

Several runs, each on a platform of its own, and one source they share in
`downloads/`: a tarball, a git branch that is tracked, a revision of a branch, or a
Subversion checkout of HEAD or of a fixed revision. `Begin`, `Expand`, `ChecksumOk`,
`MustRebuild` are a run around the download;
`Clone`, `Cloned`, `Fetch`, `NothingToFetch` are `download` of the repositories;
`Connect`, `Read`, `EndOfFile`, `Flush` are `_download_url`, where the last block
reaches the disk only after the file has got its name. `CandidateUrls` are the places to
ask, in order; one that is down is passed over (`PassedOver`), but not if its url is of a
kind whose errors `_download_url` does not catch, such as https. `UnpackTarball`,
`CopyCheckout`, `CloneWorkdir` (of a revision), `InitWorkdir`, `UpdateWorkdir`, `Checkout`
are `update_workdir`;
`SetDone`, `CreateTarball`, `DumpHeader`, `Clean`, `Refuse` are the rest of the
build as far as it concerns versions. What matters is *when* `source_checksum` is
expanded: it is memoised, and --fresh or the message that a source is not there
expands it before the download (`memo`); `cached` is the table that `Git` itself
keeps and drops at each download. `Commit` is upstream, `InstallClient` the build of
git or svn, without which `download` does nothing, `Die`, `FailClone`, `NoMirror` and
`EmptyAnswer` the faults: after an answer without a byte the mirrors that are left are
not asked, since removing a temporary file that was never made raises.
A tarball has one version. A clone that was interrupted has no `packed-refs`, a
Subversion checkout that was interrupted looks like a finished one, and a fetch or
an unpacking is one step: an interrupted one leaves the branch where it was.

### Recipe

One recipe, built again and again: what BuildRunner takes for granted, that a recipe has one
checksum. A command is a record of what its `checksum` hashes and of what it gets besides
(`env`); `Listing` is what `Build.build` lists with a dictionary, stage by stage for each
class of build of `target.py`, `tools.py`, `tools32.py`, `cross.py` and `build.py`, one
command for each kind of argument that matters. `Begin` makes the objects, `Memoise` the
dictionary, in the alphabetical order of the methods it calls, one of which may download;
`DryRun`, `Defer` and `Execute` are the two passes; `SetAttr` is a recipe that assigns to
its own or the settings' attributes, and `TooLate` the refusal of `Context.__setattr__`.
LilyPond's recipe reads the version from its source behind the dictionary's back
(`SourceVersion`). What `AutogenMagic` runs depends on the unpacked tree (`tree`: which of
`configure`, `autogen.sh`, `bootstrap`, `configure.ac`, `Makefile.am` and `Makefile` it
has), which its checksum does not hash. A branch has `configure` here; the first build of a
branch without one, and `force_autoupdate`, are not modelled. `Commit`, `OtherFetch`,
`InstallClient`, `Edit`, `SetVariable` and `MakeVersions` are what others do meanwhile.
Builds that start do finish here, since BuildRunner has the others.

Of `commands.py`, the checksums do not cover: the environment of a command,
`ignore_errors`, the function and keyword arguments of `MapLocate`, those of `Dump` and
`Substitute`, the softness of `ShadowTree`, and the contents of patches and helper
scripts. The environment is in the model, the others are named beside `Command`.

### VersionDb, Installer, Release

`Installer` is `bin/gib`, one file at a time, while `Package` and `GubStep` are `bin/gub`
replacing ball, header and checksum file of a package in that order; a build that was killed
in between is made again, also in the version that the header has already. A package stands
for a build with one subpackage: builds with several have one checksum file for all.
`InstallerClass` is `get_installer`; the run lets an installer be of any class, which is
more than one platform can do. `Globs` and `Stripped` are `strip_unnecessary_files`, by
patterns and the paths they match. `ReadHeader`, `Resolve`, `ReadSum`, `Match`, `Unpack`,
`Strip` and the actions of the four classes of installers follow the stages of
`build_installer`; `Shar` and `Linux_installer` write in place, `DarwinBundle` removes its
former output first, `Nsis` moves a finished file. The root keeps what an earlier run left,
since `clean=True` removes only its database. `Release` adds `upload.py` (`Upload`, `Copy`,
`Tag`, `Refresh`, `WriteDb`), other platforms that release from elsewhere, and kills. A copy
whose installer gib has removed meanwhile fails and ends the upload. The database is opened
for writing in `Refresh` and written in `WriteDb`; a kill in between leaves it `torn`, and
then neither gib nor `upload.py` starts any more: that a user removes the file is not
modelled. Neither is the renaming of installers called `-HEAD` (`upload.py:112-116`), which
gib does not make. `VersionDb` has the build numbers. Python compares a tuple of strings
with tuples of integers as unequal, so the type of a version is part of it (`Ints`,
`Strings`).

### Proofs and instances

`BuildRunnerProofs`, `SystemRootProofs` (what BuildRunner's system root holds),
`GupProofs`, `LockerProofs`, `BuildOrderProofs`, `SourcesProofs`, `RecipeProofs` and
`ReleaseProofs` hold theorems; the modules `MC...` give constants their values, and
`MCBuildRunner` has TLC evaluate the hypotheses of the theorems about conflicts and
dependencies (`OrderlyInstance`). Operators introduced by `Mistake:` are wrong variants of
the definition after them; putting one in its place makes TLC report the property that is
meant to notice.

## What the runs show

| Run | Result | Properties |
|---|---|---|
| `provenance` | holds | `TypeOK`, `NoTaintedBall`, `RebuiltOutsideRoot`, `DoneIsCurrent`, `HonestChecksum` |
| `conflicts` | holds | `DepsPresent`, `DoneIsInstalled`, `RebuiltOutsideRoot`, `HonestChecksum` |
| `recovery` | holds | `Recovers` |
| `packages` | holds | `TypeOK`, `OwnerLists`, `KeepsFiles`, `NoLitter`, `NoEmptyDirs`, `UnpackedFirst`, `SeenAsRegistry` |
| `killed_holders` | holds | `TypeOK`, `ExclusiveUntilReleased`, `Obtainable` |
| `order` | holds | `TypeOK`, `Complete`, `Installable`, `Settled`, `OnlyCyclesAreUnordered`, `Terminates` |
| `downloads` | holds | `TypeOK`, `WholeTarballs`, `HonestHeader`, `TrackBranches`, `Settles` |
| `recipes` | holds | `TypeOK`, `MatchIsWork`, `Settles` |
| `release` | holds | `TypeOK`, `WholeInstaller`, `MatchIsCurrent`, `PublishedForGood` |
| `stale_match` | violated | `MatchIsSame` |
| `two_holders` | violated | `Exclusive` |
| `hidden_env` | violated | `EnvironmentIsSeen` |

What holds, in words:

* A ball of a released source is always the uninterrupted work of one recipe,
  unless `--force-package` is used, whatever sequence of crashes, edits, `--fresh`,
  `--keep` and removed stamp files led to it (`NoTaintedBall`).
* Although the checksum of a resumed build covers only its last stages and is
  still written to disk, it can match a later dry run only if the balls beside it
  really are that recipe's (`HonestChecksum`), also with `--force-package`.
* The two places that decide whether a spec must be rebuilt agree, however much is
  built and installed between them (`RebuiltOutsideRoot`), and a run that finishes
  has left the root current (`DoneIsCurrent`, `DoneIsInstalled`).
* `files.db` never lies, even after a kill (`OwnerLists`), and a root nobody was
  killed in is exactly the union of its packages (`KeepsFiles`, `NoLitter`,
  `NoEmptyDirs`). Until then its users see packages come and go as a whole
  (`SeenAsRegistry`).
* A matching checksum means that the package was made by the very commands that would
  be executed now, with the same dictionary, although the two passes of a run may
  disagree when another run fetches in between: the dictionary is in the header and
  gives it away next time (`MatchIsWork`). Rebuilding comes to an end once sources and
  recipes rest (`Settles`), if one build later than it could: a first build that had to
  download while it made its dictionary is built once more.
* An installer that is sealed is complete and every package in it is from one ball
  (`WholeInstaller`), whatever gub does meanwhile. What gib finds up to date is so, if
  gub had finished the packages that gib read and none has gone back to an older version
  (`MatchIsCurrent`); what is on the
  server is never replaced unless the database has missed a release
  (`PublishedForGood`).
* Only members of a dependency cycle are ever built out of order
  (`OnlyCyclesAreUnordered`), and every package that the header of a built package names
  is built, although headers have their own list of dependencies (`Installable`).
* Runs that share `downloads/` do not spoil each other's tarballs
  (`WholeTarballs`). A package may be newer than its header says, but a header that
  agrees with `downloads/`, and so prevents a build, tells the truth
  (`HonestHeader`), and once upstream rests every platform gets there (`Settles`).

What does not:

* `two_holders`: `unlock` unlinks before it unlocks. A process that has opened the
  old file locks it afterwards, while another creates and locks a new one.
* `stale_match`: a build of an edited recipe is killed after packaging, before the
  new checksum file is written. The edit is reverted; the old checksum file
  matches, and the ball of the edited recipe is installed. If the kill cut a ball
  or header short, every later run ends on the damaged file, `--fresh` or not
  (`Recovers` fails with `MaxEdits = 2`).
* `hidden_env`: `CommandRunner.system` (`runner.py:98`) runs a command with a copy of
  `os.environ`, updated with the substitution dictionary; `System.checksum`
  (`commands.py:71`, "TODO: use env too.") hashes the command alone. `PATH` and
  `GUB_TOOLS_PREFIX` are in the dictionary, which the header in the text has; `HOME` and the
  proxies, which README:190 names too, are in no dictionary and no command.

Further weaknesses are visible in the assumptions and properties rather than in a
violated run:

* The bootstrap compiler gives way to any package of the full compiler, even if a killed
  run has installed only one of them; `DepsPresent` therefore asks only for a part of
  the stand-in.
* A connection that is cut ends a download like a complete one; `WholeTarballs`
  therefore excepts a file that a fault has left (`cut`). An https site that is down, or an
  answer without a byte, ends the search for another site.
* A version database that is torn stops every later gib and upload until it is removed.
* Of builds from bazaar, CVS and Subversion only the first kind that is present gets a
  dependency on `tools::rsync` (`cross.py:163`, `Rsync`), so which others have one
  depends on the company they are in.
* A link to a directory is not a duplicate for `install_tarball`, so two packages can
  hold it; the theorems of Gup assume that there are none.
* `tools::make` has patches, so it depends on `tools::patch`, which like every tool
  depends on `tools::make`: the cycle is real, and one of the two is built too early.
* A Subversion checkout of HEAD is never updated, since its current revision is taken
  to be the one that was asked for; `TrackBranches` is about git.
* gib asks for its build number with a tuple of strings, which no entry of the database
  equals, so its installers have number 1, or 0 without a database. After the first
  release `upload.py`, which compares integers, looks for number 2, reports that it does
  not exist, and tags the release all the same.
* `upload.py` may copy an installer that gib is writing: both use the name alone.
* Two runs over several platforms lock the roots one by one. The locks do not wait, so
  the runs cannot block each other, but both may give up, `--skip-if-locked` or not.

## Bounds and why they are enough

Counters in guards: `MaxEdits`, `MaxWipes` and `MaxAborts` (BuildRunner),
`MaxBuilds` and `MaxKills` (Gup), `MaxDeaths` (Locker), `MaxCommits` and `MaxFaults`
(Sources), `MaxCommits` and `MaxChanges` (Recipe), `MaxBuilds`, `MaxKills`, `MaxGibs` and
`MaxUploads` (Installer, Release). BuildOrder has none. `MaxNumber` is the largest build
number that there is; `MaxBuilds` of Installer does not count builds that were killed.

* `provenance` has one package with two subpackages, six stages, three recipes of two
  versions, two edits, one interference and two failures: an edit that is reverted, a
  failure in a resumed build and one between two subpackages all occur. Specs influence each
  other only through `installed`, which is what `conflicts` is for: a chain of compiler,
  library, compiler, a second library that evicts the first, and a tracked build on top that
  needs both compilers, with one edit, one failure and either no option or all that take
  risks together; what --fresh does, it does to each spec alone.
* `packages` has two packages over five paths, so that they share files and
  directories; one of the files is a libtool archive. One rebuild and two kills: a kill
  during the repair of what another kill left occurs. 242,864 states.
* `killed_holders` has three processes: two to compete and one that comes later.
  Four inodes are one per process and one under the name.
* `order` has eleven builds of three platforms, two of which nothing needs unless
  `tools.py` fails to rewrite a name, and eight choices of declared dependencies for two of
  them, with and without cycles, and two command lines, one of which asks for a
  subpackage: 1,325,135 states.
* `downloads` has two runs, which is what it takes to fetch behind another's back,
  one new version upstream and one fault. Two chunks are the least that a cut can
  tell apart; three sites (a directory, an https and an http one) are enough for one that
  hides another. One run uses all options, the other always --fresh, which moves its
  checksum as far from its build as can be. 750,303 states.
* `recipes` has a branch built in the usual way and tarballs in every way, four of them with
  a tree for a branch of `AutogenMagic` (of `tools32.py` and `cross.py` the usual one, since
  their classes differ as those of `tools.py` do), one commit and two changes by developers,
  recipes and the version database: enough for an edit that is reverted, and for a fetch
  between any two steps of two runs. `hidden_env` needs one change. 170,331 states.
* `release` has a program and a library that the program needs in one of its two
  versions and that has a file of the other in one of its own; one rebuild, two runs of
  gib, two uploads and one kill: what is needed to rebuild a package between any two
  steps of a run whose installer the next run finds, and to upload twice with a refresh
  that is missed. Two kinds of paths are stripped or kept. 1,922,900 states, the largest
  run. The theorems about Recipe and Release do without these bounds.

## Fairness

`Recovers` assumes that a run under way takes steps (`WF_vars(Run)`), and that a user
whose runs fail tries `--fresh` again and again (strong fairness, because a run in
progress disables it): this is what the message of a refused build asks for.
Failures are not fair and are bounded. `Obtainable` assumes that every process is
scheduled and that commands end (`WF_vars(Step(p))`). `Terminates` assumes only that
the one process runs (`WF_vars(Next)`). `Settles` assumes that a run takes steps, that
the client is built some day, and that every platform is built again and again with
--fresh, which is what a refused build asks for; neither faults nor commits are fair.
`Recipe!Settles` assumes that a run takes steps, that gub is run again, and that git gets
built (`WF_vars(Step)`, `WF_vars(\E o : Begin(o))`, `WF_vars(InstallClient)`); commits,
edits and fetches are not fair and are bounded.

## What is proved

For every value of the constants that satisfies the `ASSUME`s of the modules:

* `BuildRunnerProofs!TypeCorrect`; its invariant `TypeInv` adds `Position`, where in
  its loop a run can be, without which `Cur` need not be a spec.
* `BuildRunnerProofs!NeverTainted`, for option sets without `--force-package`. The
  property is not inductive: the invariant adds `UntaintedTree` (a build that is not
  called tainted either has its `untar` still to come or works in a pure tree) and
  `PackagingIsUntainted` (the `false` command lets no tainted build past it).
* `BuildRunnerProofs!AlwaysOutsideRoot`. The invariant adds `RebuiltLater`: no build
  still to come that must be rebuilt has a package installed.
* `BuildRunnerProofs!ChecksumsAreHonest`, with `--force-package` or without. The
  invariant `HonestInv` follows a checksum of all stages (`FromScratch`) through the run
  that computed it: while its build waits no stamp appears (`UnbegunInv`), so that the
  build unpacks (`ScratchTree`) and has packed from that tree whatever its place in the
  package stage says it has (`ScratchPackages`).
* `SystemRootProofs!AlwaysInstalled`, if conflicts are orderly (`OrderlyConflicts`): a
  package that removes others never stays out itself, as only bootstrap packages do, and
  what removes the replacement of a package is a replacement too. Without the second a
  chain of removals would leave a gap that no property could excuse. The invariant
  `HeldInv` says of every package treated so far in the loop that it is in the root or that
  one that `Replaces` it is, and of the package at hand which of its rivals are gone.
* `SystemRootProofs!UndisturbedDepsPresent`: of whatever order, those dependencies of a spec
  that come before it and that nothing built in between removes, but the full version of a
  bootstrap package, which nothing removes (`Undisturbed`), are in the root when its commands
  run. That they come first is what `get_source_packages` is for, and fails in cycles only:
  `tools::make`, a bootstrap build with patches, and `tools::patch` are in one
  (`gub/cross.py:109,155,167`). That they stay is what makes a build environment usable at
  all. `AlwaysDepsPresent` is the case that all dependencies are such (`OrderlyDeps`), and
  states `DepsPresent`. The invariant has `DepsHeld`, for the undisturbed dependencies of
  every spec to come whose turn has passed, and `TurnHeld`, for the packages of the spec
  that is being installed.
* `SystemRootProofs!AlwaysCurrent`, without `--lax-checksums`. What is in the root was
  unpacked from a ball of a version that stamps and headers tell (`PackedRoot`). For the
  specs whose turn has passed ball and header are of the present version (`Behind`); for the
  others either the checksum matched, and then they are too, or the spec must be rebuilt
  (`Awaited`) and, by the invariant of `AlwaysOutsideRoot`, is not in the root; in its turn
  the build has written what its place in the package stage says (`AtTurn`). Builds that
  are never installed are left out: `spec_build` looks at the checksum of such a build
  only, so that its balls may be gone.
* `GupProofs!TypeCorrect`, `OwnersAreListed` and `NamedAfterUnpacking` (which also says
  that no file of the package is still raw), by the invariant `CallInv`, which says what a
  call in progress has done so far.
* `GupProofs!FilesAreKept` and `RemovalIsComplete`, assuming no links to
  directories, by `CleanRoot`: every package but the one at hand owns its files in
  `files.db` and in the tree.
* `GupProofs!NoDirIsLeft`, assuming that balls list the directories they use: every
  directory has something in it, is listed by a package that is there or is about to
  come, or is still to be removed (`DirStays`), after all that is in it (`InnerFirst`).
* `GupProofs!ImplementsRegistry`, assuming no links: each write maps to a step
  of `Registry` or to none. `CleanRoot` shows that what `Registry` installs or removes at
  once is what the call has written by then.
* `LockerProofs!TypeCorrect` and `KilledHoldersExclude`, by `OneFile`: until the first
  release there is only one file to lock.
* `BuildOrderProofs!TypeCorrect`, `AlwaysComplete`, `AlwaysInstallable`, `AlwaysSettled`
  and `OrderedButForCycles`, assuming that there are finitely many builds and subpackages. The
  invariant has a part for each loop: `SearchInv` (what a loaded spec needs is loaded or
  still to do), `ReachInv` and `ClosedInv` (the specs are those that the command line
  leads to by the dependencies so far, additions included), `SettledInv` and `SortInv`
  (the stack of the sort is a chain of dependencies, what has been visited is the stack or
  in the answer, and what is in the answer has its dependencies before it unless they lead
  back to it).
* `BuildOrderProofs!ListsAreBuildable` joins it to BuildRunner: the list that
  `get_source_packages` returns, and the dependencies of what is in it, are as
  `BuildRunner!SpecsAssumption` wants `Order` and `Deps` to be, and a dependency that is on no
  cycle with the build that has it comes first, as `Undisturbed` wants it.
* `SourcesProofs!TypeCorrect`, `TarballsAreWhole`, `HeadersAreHonest` and
  `BranchesAreTracked`, assuming that there are more files than runs. `DownloadInv` says
  that a partial file belongs to one run and has all it has read but the last chunk.
  `GitInv` orders the versions a run has in hand: expanded, then kept by git, then packed,
  each no older than the one before and none ahead of `downloads/` (`Below`), although
  another run may fetch, or lose the clone, between any two of them.
* `RecipeProofs!TypeCorrect` and `MatchVouches`, for any set of recipes. The lemma
  `SameText` says that the texts of two lists determine the dictionary, because the
  header that the package stage dumps has all of it, and with it all that the commands
  show. The invariant has `PassInv`: the two passes list the same, or else the branch has
  gone on since the dictionary was made; and `VouchInv`: the checksum file is of a list
  whose commands made the ball, or else of a dictionary so old that no later run can have
  it again (`Outdated`).
* `ReleaseProofs!TypeCorrect`, `InstallersAreWhole` (`WholeInv`: every package unpacked so
  far has all its files in the root, as the duplicate test sees to) and `PublishedIsKept`
  (`PublishInv`: while nothing has been missed the database lists every installer of the
  platform on the server but the one being released; `NextNumber`: the next build number
  exceeds all that the database lists).
* `ReleaseProofs!MatchesAreCurrent`, by three invariants. `BallInv`: a package whose
  checksum file is that of its newest version is finished, and gub, which builds the version
  of the header again only if the checksum file is of another, is not at work on it.
  `SumInv`: what gib has read of headers and checksum files is of no version newer than the
  newest, and where it is of the newest it is still true, and so is the ball unpacked after
  it. `SealInv`: as long as the checksum file of the installer is all of newest versions,
  some installer in `uploads/` has their files, and gib reads just these checksums again and
  so builds nothing, which could replace that installer by less. The packages that a run
  needs are those of the run before because headers that agree on what is needed say the
  same is needed (`ClosureAgrees`).

The assumptions of BuildRunner about stages are those of every recipe that unpacks its own
source: `untar` comes first, and last `package`, or `package` and `clean`. A `NullBuild`
has no `untar`; what it packs is made by its own commands, and the theorems do not cover it.
Each spec of the order is a spec of the request, and every spec is in it, by
`ListsAreBuildable`.

Every safety and action property of the passing runs is so proved. Only model-checked are
the liveness properties `Recovers`, `Obtainable`, `Terminates` and both `Settles`, which are
out of the prover's reach.

## Plan

1. Done: the core (BuildRunner, Gup with Registry, Locker), what feeds it (BuildOrder,
   Sources, Recipe), what it feeds (VersionDb, Installer, Release), and the proofs above.
2. Proofs: the part of `Recovers` that is no liveness, that a run which says `done` leaves
   nothing that a run after it would build, as long as nothing is edited or removed.
3. `Roots`: several roots and locks in one run and several runs at once, composing
   Locker with an abstract run; `--skip-if-locked` for a second platform.
4. A branch that moves during a run of BuildRunner: Sources composed with it.

## What is not modelled

* Several platforms in one run, `--stage`, `--dry-run`, `--download-only` and log files.
* What the commands of a stage do to the files of a tree beyond `Content`
  (BuildRunner), and to the files of an installer beyond which package they are of.
* A branch that moves during one run of BuildRunner: Sources and Recipe have that.
* CVS, Bazaar and Darcs, which no recipe uses (the condition in `Darcs.download` is
  inverted), and `migrate`, which moves directories of an older layout. Revisions of git
  without a branch, which are never found downloaded and never fetched after the first
  clone (`repository.py:647-671`).
* `gpkg`, a loop around the calls that Gup models. It takes the lock of the root, walks
  its arguments only, although its help says that it installs dependencies, and `list`
  raises KeyError after a kill between `packages.db` and `dicts.db`.
* Post-install scripts: they are renamed to `*.done`, so uninstalling leaves them.
* Recipe: `PythonBuild`, whose compile raises unless the Python that runs is the tools'
  own; `wrap_executables` of the tools, which never runs since their rpath is not empty;
  the recipes of darwin-sdk and osx-lilypad that look at the disk; `files.txt`;
  `--no-strip`, which `strip` ignores.
* Platform tables (`mingw.py`, `darwin.py`, `cygwin.py` and so on), probes of the host,
  and all but one of the recipes: they are data, the constants of the modules.
* `gub-tester`, which cannot run (`loggedos` and `test_log` are not defined in it), the
  shell scripts, and librestrict, a stateless C library.
