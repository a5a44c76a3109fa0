------------------------------- MODULE Recipe -------------------------------
(***************************************************************************)
(* From a recipe to commands and their checksum: the settings              *)
(* (gub/settings.py), the substitution dictionary (gub/context.py), the    *)
(* stages that expand it (gub/build.py, gub/target.py), the commands they  *)
(* defer (gub/runner.py, gub/commands.py) and the two passes over them:    *)
(* the dry run, whose text is the checksum, and the build, whose commands  *)
(* are executed.                                                           *)
(*                                                                         *)
(* A recipe is a Python object, and both passes call its stages.  They     *)
(* give the same commands only if nothing that a stage reads changes in    *)
(* between.  A later run compares texts only: what no text shows goes      *)
(* unnoticed.  Interrupted and partial builds are module BuildRunner, so   *)
(* here every build that executes its commands finishes.                   *)
(***************************************************************************)
EXTENDS Integers, Sequences

CONSTANTS
  Recipes,    \* a kind of source, a class and a module of builds, and the files that
              \* tell how the source is configured
  Names,      \* bound: environment variables that someone changes
  None,       \* not there
  Invalid,    \* the checksum of a branch that could not be downloaded
  Unset,      \* the empty string
  MaxCommits, \* bound: upstream versions of the branch
  MaxChanges  \* bound: of the recipe, the environment, the database, and
              \* assignments that a recipe's own code makes

Kinds     == {"tarball", "branch"} \* a branch of git
Classes   == {"AutoBuild", "MakeBuild", "SConsBuild", "CpanBuild", "NullBuild",
              "BinaryBuild"}
\* gub/target.py builds for the target platform, gub/tools.py tools to build with,
\* gub/tools32.py 32-bit ones, gub/cross.py compilers; what is in gub/build.py
\* itself only unpacks.
TargetClasses  == Classes \cup {"WafBuild"}
ToolsClasses   == Classes \cup {"ShBuild"}
Tools32Classes == ToolsClasses
CrossClasses   == {"AutoBuild"}
PlainClasses   == {"NullBuild", "BinaryBuild", "SdkBuild"}
Builds ==
  (TargetClasses \X {"target"}) \cup (ToolsClasses \X {"tools"})
    \cup (Tools32Classes \X {"tools32"}) \cup (CrossClasses \X {"cross"})
    \cup (PlainClasses \X {"build"})
Texts     == {0, 1}  \* two texts, of anything that is text
Versions  == 0..MaxCommits
Variables == {"PATH", "GUB_TOOLS_PREFIX", "HOME"} \* HOME stands for the proxies too

\* A `bootstrap' that sets CC counts as none, and one that ends in .sh as the same.
TreeFiles == {"configure", "autogen.sh", "bootstrap", "configure.ac", "Makefile.am",
              "Makefile"}

\* The tree of a branch is kept from build to build: but for the first one, it has
\* the configure that was made for it.
ASSUME RecipesAssumption ==
  \A r \in Recipes : \E k \in Kinds, b \in Builds, t \in SUBSET TreeFiles :
    r = <<k, b[1], b[2], t>> /\ (k = "branch" => "configure" \in t)
ASSUME NamesAssumption   == Names \subseteq Variables
ASSUME BoundsAssumption == MaxCommits \in Nat /\ MaxChanges \in Nat
ASSUME ValuesAssumption ==
  Invalid # None /\ \A v \in {None, Invalid, Unset} : v \notin Versions

VARIABLES
  kind, class, module, \* of the source, and of the build
  tree,     \* what the source comes with
  upstream, \* the latest version of the branch
  client,   \* is git installed?
  head,     \* the version of the branch in downloads/
  recipe,   \* the text of the recipe
  environ,  \* the environment, as cleaned
  versions, \* is there a version database?
  file,     \* the checksum file
  hdr,      \* the source_checksum in the package's header
  ball,     \* the commands that made the package, and where
  pc,       \* where the run is
  offline,  \* its command line
  attrs,    \* the strings its objects hold: the build's, the settings', and PATH
  memo,     \* Context._substitution_dict, of both
  bound,    \* does source.version read the file VERSION?
  dry,      \* the commands of the dry run
  deferred, \* the commands to be executed
  changes   \* counter for the bound

world  == <<kind, class, module, tree, upstream, client, head, versions>>
disk   == <<recipe, environ, file, hdr, ball>>
memory == <<offline, attrs, memo, bound, dry, deferred>>
vars   == <<world, disk, pc, memory, changes>>

-----------------------------------------------------------------------------
(* Commands *)

\* What a command does depends on its arguments, which its checksum hashes,
\* and on more, which it does not: for system the environment, of which the
\* dictionary is modelled as `env'; and, not modelled, the contents of patches,
\* what a function calls, and the keyword arguments ignore_errors, must_happen,
\* find_func, soft and permissions.
Command(name, args, env) == [name |-> name, args |-> args, env |-> env]
Hash(c)  == <<c.name, c.args>>
Shown(c) == <<c.name, c.args, c.env>>

UpdateSourceDir       == Command("UpdateSourceDir", kind = "branch", None)
System(d, cmd)        == Command("System", cmd, d)
\* Copy, Symlink, Mkdir and the like hash all that they do.
Plain(name, args)     == Command(name, args, None)
Func(args)            == Command("Func", <<recipe.func, args>>, None)
MapLocate(dir, files) == Command("MapLocate", <<recipe.func, dir, files>>, None)
Dump(string, name)    == Command("Dump", <<name, string>>, None)
Substitute(pairs, name) == Command("Substitute", <<name, pairs>>, None)
ShadowTree(from, to)  == Command("ShadowTree", <<from, to>>, None)
PackageGlobs(globs, d) == Command("PackageGlobs", <<globs, d.version>>, None)

\* Whether configure has to be generated: where there is none, of a source that has
\* the input for it, or that is not made with make or scons as it is.
NeedsAutogen ==
  "configure" \notin tree /\ ("configure.ac" \in tree \/ "Makefile" \notin tree)
\* By the source's own script, or else by the auto tools; what each is given is left
\* out, and libtoolize is taken to be on the PATH.
ForcedAutogen(d) ==
  CASE "autogen.sh" \in tree -> <<System(d, "autogen.sh")>>
    [] "autogen.sh" \notin tree /\ "bootstrap" \in tree -> <<System(d, "bootstrap")>>
    [] OTHER ->
         <<System(d, "libtoolize")>>
         \o (IF "configure.ac" \in tree THEN <<System(d, "aclocal autoheader autoconf")>>
             ELSE <<>>)
         \o (IF "Makefile.am" \in tree THEN <<System(d, "automake")>> ELSE <<>>)
Autogen(d) == IF NeedsAutogen THEN ForcedAutogen(d) ELSE <<>>
\* The checksum hashes the text of the method, not the commands it comes to.
AutogenMagic(d) == Command("AutogenMagic", "autogen", Autogen(d))

-----------------------------------------------------------------------------
(* The dictionary *)

IsDownloaded == kind = "tarball" \/ head # None

\* Mistake: the file VERSION is read whether or not there is a repository.
AnyVersionAt(b, h) == IF kind = "tarball" THEN 0 ELSE h
\* Repository.version: of a tarball fixed, of a branch the empty string, or,
\* for those recipes that bind it, what the file VERSION says at present.
VersionAt(b, h)  == IF kind = "tarball" THEN 0 ELSE IF b THEN h ELSE Unset
SourceVersion    == VersionAt(bound, head)
ChecksumAt(h)    == IF kind = "tarball" THEN 0 ELSE IF h = None THEN Invalid ELSE h

\* Settings.__init__: directories, those of the tools where GUB_TOOLS_PREFIX says;
\* and the tools come first in the PATH of the process.
ToolsPrefix  == environ.GUB_TOOLS_PREFIX
SettingsPath == <<ToolsPrefix, environ.PATH>>
Settings     == [dirs |-> ToolsPrefix, PATH |-> SettingsPath]

\* The results of the methods that are marked subst_method, called in
\* alphabetical order: so full_version is asked before source_checksum, which may
\* download, and version after it.  The number of the next release is asked for
\* with a version that no entry of the database has.  The others are constant.
Methods(b, h) ==
  [build_number    |-> IF versions THEN 1 ELSE 0,
   full_version    |-> SourceVersion,
   source_checksum |-> ChecksumAt(h),
   version         |-> VersionAt(b, h)]

\* recurse_substitutions: what a string attribute refers to is filled in, here
\* the version in the build's.
Recursed(d) == [d EXCEPT !.flags = <<@, d.version>>]

\* get_constant_substitution_dict: the settings' dictionary, the string
\* attributes and the methods.
Dictionary(b, h) ==
  LET of == Methods(b, h)
  IN  Recursed(
        [prefix_dir |-> attrs.settings, flags |-> attrs.build, PATH |-> None, added |-> 0,
         build_number |-> of.build_number, full_version |-> of.full_version,
         source_checksum |-> of.source_checksum, version |-> of.version])
Dictionaries ==
  [prefix_dir : Texts, flags : Texts \X (Versions \cup {Unset}), PATH : {None}, added : Nat,
   build_number : {0, 1}, full_version : Versions \cup {Unset},
   source_checksum : Versions \cup {Invalid}, version : Versions \cup {Unset}]
ASSUME NoneAssumption == None \notin Dictionaries

\* Whoever asks for it gets more: target.AutoBuild the variables for compilers and
\* the PATH, and a recipe what it appends with append_dict.
Environment(d) == [d EXCEPT !.PATH = attrs.PATH]
\* And tools.AutoBuild its own, with a CC of its own for 32 bits; cross.AutoBuild
\* has the same PATH as target.AutoBuild.
ToolsEnvironment(d) == [d EXCEPT !.PATH = <<attrs.settings>> \o attrs.PATH]
Tools32Environment(d) == ToolsEnvironment(d)
CrossEnvironment(d) == Environment(d)
Appended(d)    == [d EXCEPT !.added = @ + 1]
\* Mistake: AutoBuild.get_substitution_dict hands out the dictionary itself.
KeptAppended(d) == Appended(d)
\* It makes a copy.
Kept(d) == d
Asked(d) == Appended(CASE module = "target"  -> Environment(d)
                       [] module = "tools"   -> ToolsEnvironment(d)
                       [] module = "tools32" -> Tools32Environment(d)
                       [] module = "cross"   -> CrossEnvironment(d)
                       [] OTHER -> d)

-----------------------------------------------------------------------------
(* Stages: the commands they list with dictionary d *)

IsTool     == module \in {"tools", "tools32"}
Untar      == <<UpdateSourceDir>>
Patch(d)   == <<System(d, <<"patch", d.version>>)>>
Autoupdate(d) ==
  <<AutogenMagic(d)>> \o IF module # "target" THEN <<>>
                     ELSE <<Func("cross_compiling"), MapLocate("srcdir", "configure")>>
Shadow(d)  == <<System(d, "rm builddir"), ShadowTree("srcdir", "builddir")>>
ConfigCache(d) == <<System(d, "mkdir builddir"), Dump(d.prefix_dir, "config.cache")>>
UpdateLibtool == <<MapLocate("builddir", "libtool")>>
AutoConfigure(d) ==
  <<System(d, <<"configure", d.prefix_dir>>), MapLocate("builddir", "libtool")>>
\* A cross compiler's own libtool is left as it is.
CrossConfigure(d) == ConfigCache(d) \o AutoConfigure(d)
\* Without a cross compilation there is no cache to dump.
ToolsConfigure(d) == AutoConfigure(d) \o UpdateLibtool
Configure(d) ==
  CASE class = "CpanBuild" -> Append(Shadow(d), System(d, <<"perl", d.prefix_dir>>))
    [] class # "CpanBuild" /\ IsTool -> ToolsConfigure(d)
    [] module = "cross" -> CrossConfigure(d)
    [] OTHER -> Shadow(d) \o ConfigCache(d) \o AutoConfigure(d) \o UpdateLibtool
Compile(d) == <<System(d, <<"make", d.flags>>)>>
LibtoolFixup == <<MapLocate("builddir", "*.la")>>
\* No license file is installed for a cross compiler.
License == IF module = "cross" THEN <<>> ELSE <<Func("license")>>
PostInstall(d) ==
  License \o <<MapLocate("install_root", "lib*.la"), System(d, "rm info/dir")>>
ConfigScript(d) ==
  <<System(d, "mkdir cross"), System(d, <<"cp config_script", d.version>>),
    Substitute(d.prefix_dir, "config_script")>>
\* What recipes add.  LilyPond's asks source.version (), and not the dictionary.
InstallMore(d) ==
  <<Plain("Copy", d.prefix_dir), System(d, <<"mv", SourceVersion, "current">>),
    Dump("cachedir", "local.conf")>>
AutoInstall(d) ==
  <<System(d, <<"rm install_root", d.version>>),
    System(d, <<"make install", d.flags>>)>> \o PostInstall(d)
\* GCC's libraries for the target are moved to where those of a target are.
CrossInstall(d) ==
  AutoInstall(d) \o <<System(d, "mkdir lib"), MapLocate("cross_dir", "lib*")>>
\* gub/build.py's own null builds make the root of what is packaged, the others usr.
PlainInstall(d) ==
  CASE class = "BinaryBuild" ->
         <<System(d, "mkdir install_root"), System(d, <<"tar srcdir", d.version>>),
           MapLocate("install_root", "lib*.la")>>
    [] class = "NullBuild" /\ module # "build" -> <<System(d, "mkdir install_prefix")>>
    [] OTHER -> <<System(d, "mkdir install_root")>>
Install(d) ==
  CASE class \in PlainClasses -> PlainInstall(d)
    [] class \notin PlainClasses /\ IsTool -> AutoInstall(d)
    [] module = "cross" -> CrossInstall(d)
    [] OTHER -> LibtoolFixup \o AutoInstall(d) \o ConfigScript(d) \o InstallMore(d)
SrcPackage(d) == <<System(d, <<"tar srcdir", d.version>>)>>
\* Subpackages, a devel or for a cross compiler a doc one, and the rest, have their
\* files, which the settings decide on, a ball, and as header a dump of the whole
\* dictionary.
HasSubpackages == module \in {"target", "cross"} /\ class \notin PlainClasses
FirstSub == IF module = "cross" THEN "doc" ELSE "devel"
FileSpecs(sub)  == IF sub = "" THEN <<"/">> ELSE <<sub, attrs.settings>>
SetDict(d, sub) ==
  [x \in {"sub_name"} \cup DOMAIN d |-> IF x = "sub_name" THEN sub ELSE d[x]]
Subpackage(d, sub) ==
  <<PackageGlobs(FileSpecs(sub), d), Dump(SetDict(d, sub), <<"hdr", sub>>)>>
  \o IF sub = "" THEN <<>> ELSE <<System(d, <<"rm", FileSpecs(sub)>>)>>
Package(d) ==
  <<MapLocate("install_root", "*")>>
  \o (IF HasSubpackages THEN Subpackage(d, FirstSub) ELSE <<>>)
  \o Subpackage(d, "") \o <<System(d, "rm install_root")>>
Clean(d) ==
  IF kind = "branch" THEN <<System(d, "rm stamp_file")>>
  ELSE <<System(d, "rm stamp_file"), System(d, "rm srcdir builddir")>>

AllStages == {"untar", "patch", "autoupdate", "configure", "compile", "install",
              "src_package", "package", "clean"}
Stages ==
  CASE class = "AutoBuild"   -> AllStages
    [] class \in {"MakeBuild", "ShBuild"} ->
         (AllStages \ {"autoupdate", "configure"}) \cup {"shadow"}
    [] class = "SConsBuild"  -> AllStages \ {"autoupdate", "configure"}
    [] class = "WafBuild"    -> (AllStages \ {"autoupdate"}) \cup {"shadow"}
    [] class = "CpanBuild"   -> AllStages \ {"autoupdate"}
    [] class = "NullBuild"   -> {"patch", "install", "package", "clean"}
    [] class = "BinaryBuild" -> {"untar", "install", "package", "clean"}
    [] class = "SdkBuild"    -> {"untar", "patch", "install", "package", "clean"}

\* What the method of each stage lists.
Commands(d) ==
  [untar |-> Untar, patch |-> Patch(d), autoupdate |-> Autoupdate(d), shadow |-> Shadow(d),
   configure |-> Configure(d), compile |-> Compile(d), install |-> Install(d),
   src_package |-> SrcPackage(d), package |-> Package(d), clean |-> Clean(d)]

\* Build.build, with a dump of the stamp file after each stage but the last.
SetDone(d, stage) == <<Dump(stage, <<"stamp_file", d.source_checksum>>)>>
Listing(d) ==
  [s \in Stages |-> Commands(d)[s] \o IF s = "clean" THEN <<>> ELSE SetDone(d, s)]

\* get_skip_stages, of a plain command line; the dry run has every stage.
Unskipped(list) == [s \in DOMAIN list \ {"src_package"} |-> list[s]]

\* DeferredRunner.checksum, and a projection for the properties.
Each(Op(_), list) == [s \in DOMAIN list |-> [i \in DOMAIN list[s] |-> Op(list[s][i])]]
Checksum(list)    == Each(Hash, list)

\* Mistake: the checksum written is the one of the commands executed.
WrittenExecuted == Checksum(deferred)
Written == Checksum(dry)

-----------------------------------------------------------------------------
TypeOK ==
  /\ <<kind, class, module, tree>> \in Recipes
  /\ upstream \in Versions /\ client \in BOOLEAN
  /\ head \in Versions \cup {None}
  /\ recipe \in [flags : Texts, func : Texts]
  /\ environ \in [Variables -> Texts] /\ versions \in BOOLEAN
  /\ hdr \in Versions \cup {None, Invalid}
  /\ pc \in {"idle", "expand", "fetch", "dry", "decide", "again", "list",
             "execute", "certify"}
  /\ offline \in BOOLEAN /\ bound \in BOOLEAN
  /\ attrs \in [build : Texts, settings : Texts, PATH : Texts \X Texts]
  /\ memo = None \/ memo \in Dictionaries
  /\ file # None => DOMAIN file \subseteq AllStages \cup {"shadow"}
  /\ ball # None => hdr # None /\ DOMAIN ball = {"work", "environ"}
  /\ changes \in 0..MaxChanges

NoAttrs == [build |-> 0, settings |-> 0, PATH |-> <<0, 0>>]

Init ==
  /\ \E r \in Recipes : kind = r[1] /\ class = r[2] /\ module = r[3] /\ tree = r[4]
  /\ client \in BOOLEAN
  /\ upstream = 0 /\ head = None
  /\ recipe = [flags |-> 0, func |-> 0]
  /\ environ = [v \in Variables |-> 0] /\ versions = FALSE
  /\ file = None /\ hdr = None /\ ball = None
  /\ pc = "idle"
  /\ offline = FALSE /\ attrs = NoAttrs /\ memo = None
  /\ bound = FALSE /\ dry = None /\ deferred = None
  /\ changes = 0

EndRun ==
  /\ pc' = "idle"
  /\ offline' = FALSE /\ attrs' = NoAttrs /\ memo' = None
  /\ bound' = FALSE /\ dry' = None /\ deferred' = None
Goto(where) == pc' = where /\ UNCHANGED <<offline, attrs, bound, dry, deferred>>

-----------------------------------------------------------------------------
(* A run *)

\* The objects are made.  A source that has been downloaded is fetched, one
\* that has not is announced first, with an expanded message.
Begin(o) ==
  /\ pc = "idle"
  /\ offline' = o
  /\ attrs' = [build |-> recipe.flags, settings |-> Settings.dirs,
               PATH |-> Settings.PATH]
  /\ bound' = (kind = "branch" /\ IsDownloaded)
  /\ pc' = IF o THEN "dry" ELSE IF IsDownloaded THEN "fetch" ELSE "expand"
  /\ UNCHANGED <<world, disk, memo, dry, deferred, changes>>

\* Context.__setattr__ refuses a string once there is a dictionary.  That of
\* the settings is made for the first build that asks for its own.
TooLate(owner) == memo # None

\* A recipe's own code assigns to itself, or to the settings it shares.
SetAttr(owner, s) ==
  /\ pc # "idle" /\ pc # "certify" /\ changes < MaxChanges
  /\ changes' = changes + 1
  /\ IF TooLate(owner) THEN EndRun
     ELSE /\ attrs' = [attrs EXCEPT ![owner] = s]
          /\ UNCHANGED <<pc, offline, memo, bound, dry, deferred>>
  /\ UNCHANGED <<world, disk>>

\* The first to ask makes the dictionary.  Git.checksum downloads if nothing is
\* there; and then version is bound.
Memoise ==
  /\ pc \in {"expand", "dry"} /\ memo = None
  /\ IF ~IsDownloaded /\ client
     THEN memo' = Dictionary(TRUE, upstream) /\ head' = upstream /\ bound' = TRUE
     ELSE memo' = Dictionary(bound, head) /\ UNCHANGED <<head, bound>>
  /\ pc' = IF pc = "expand" THEN "fetch" ELSE "dry"
  /\ UNCHANGED <<kind, class, module, tree, upstream, client, versions, disk, offline, attrs, dry,
                 deferred, changes>>

\* bin/gub downloads all sources, and Build.build once more.
Download ==
  /\ pc \in {"fetch", "again"}
  /\ IF kind = "branch" /\ client
     THEN head' = upstream /\ bound' = TRUE
     ELSE UNCHANGED <<head, bound>>
  /\ pc' = IF pc = "fetch" THEN "dry" ELSE "list"
  /\ UNCHANGED <<kind, class, module, tree, upstream, client, versions, disk, offline, attrs, memo,
                 dry, deferred, changes>>

\* calculate_checksums
DryRun ==
  /\ pc = "dry" /\ memo # None
  /\ dry' = Listing(Asked(memo))
  /\ memo' = Kept(memo)
  /\ pc' = "decide"
  /\ UNCHANGED <<world, disk, offline, attrs, bound, deferred, changes>>

\* spec_checksums_fail_reason
Matches == file # None /\ file = Checksum(dry) /\ hdr = memo.source_checksum

NothingToDo ==
  /\ pc = "decide" /\ Matches
  /\ EndRun
  /\ UNCHANGED <<world, disk, changes>>

MustRebuild ==
  /\ pc = "decide" /\ ~Matches
  /\ Goto(IF offline THEN "list" ELSE "again")
  /\ UNCHANGED <<world, disk, memo, changes>>

\* spec_build: Build.build again, with the dictionary there is by now.
Defer ==
  /\ pc = "list"
  /\ deferred' = Unskipped(Listing(Asked(memo)))
  /\ memo' = Kept(memo)
  /\ pc' = "execute"
  /\ UNCHANGED <<world, disk, offline, attrs, bound, dry, changes>>

\* execute_deferred_commands: the commands make the package and its header.
\* Without a repository UpdateSourceDir fails.
Execute ==
  /\ pc = "execute"
  /\ IF IsDownloaded \/ "untar" \notin Stages
     THEN /\ ball' = [work |-> Each(Shown, deferred), environ |-> environ]
          /\ hdr' = memo.source_checksum
          /\ Goto("certify") /\ UNCHANGED memo
     ELSE EndRun /\ UNCHANGED <<ball, hdr>>
  /\ UNCHANGED <<world, recipe, environ, file, changes>>

WriteChecksum ==
  /\ pc = "certify"
  /\ file' = Written
  /\ EndRun
  /\ UNCHANGED <<world, recipe, environ, hdr, ball, changes>>

-----------------------------------------------------------------------------
(* What others do *)

\* Someone edits the recipe, or starts bin/gub in another environment.
Edit(field) ==
  /\ pc = "idle" /\ changes < MaxChanges
  /\ changes' = changes + 1
  /\ recipe' = [recipe EXCEPT ![field] = 1 - @]
  /\ UNCHANGED <<world, environ, file, hdr, ball, pc, memory>>

SetVariable(v) ==
  /\ pc = "idle" /\ changes < MaxChanges
  /\ changes' = changes + 1
  /\ environ' = [environ EXCEPT ![v] = 1 - @]
  /\ UNCHANGED <<world, recipe, file, hdr, ball, pc, memory>>

\* make update-versions
MakeVersions ==
  /\ ~versions /\ changes < MaxChanges
  /\ versions' = TRUE /\ changes' = changes + 1
  /\ UNCHANGED <<kind, class, module, tree, upstream, client, head, disk, pc, memory>>

Commit ==
  /\ kind = "branch" /\ upstream < MaxCommits
  /\ upstream' = upstream + 1
  /\ UNCHANGED <<kind, class, module, tree, client, head, versions, disk, pc, memory, changes>>

\* A run on another platform fetches the branch.
OtherFetch ==
  /\ kind = "branch" /\ client /\ head # upstream
  /\ head' = upstream
  /\ UNCHANGED <<kind, class, module, tree, upstream, client, versions, disk, pc, memory, changes>>

InstallClient ==
  /\ ~client
  /\ client' = TRUE
  /\ UNCHANGED <<kind, class, module, tree, upstream, head, versions, disk, pc, memory, changes>>

Step == \/ Memoise \/ Download \/ DryRun \/ NothingToDo \/ MustRebuild \/ Defer
        \/ Execute \/ WriteChecksum
Next ==
  \/ Step \/ \E o \in BOOLEAN : Begin(o)
  \/ \E owner \in {"build", "settings"}, s \in Texts : SetAttr(owner, s)
  \/ \E field \in {"flags", "func"} : Edit(field)
  \/ \E v \in Names : SetVariable(v)
  \/ MakeVersions \/ Commit \/ OtherFetch \/ InstallClient

Spec == Init /\ [][Next]_vars

\* The process goes on, gub is run again and again, and git gets built.
Fairness == WF_vars(Step) /\ WF_vars(\E o \in BOOLEAN : Begin(o)) /\ WF_vars(InstallClient)
FairSpec == Spec /\ Fairness

-----------------------------------------------------------------------------
(* Properties *)

\* A matching checksum and header vouch for the package: it was made by the
\* commands that this run would execute, with the same arguments and the same
\* dictionary in their environment, although the text compared is of other
\* passes than the ones executed, although stages may ask the source or the
\* settings directly, and although sources move and attributes are assigned to.
MatchIsWork ==
  pc = "decide" /\ Matches => ball.work = Each(Shown, Unskipped(dry))

\* README:190, of the checksum: it `includes the environment variables DISPLAY,
\* FTP_PROXY, GUB_TOOLS_PREFIX, HOME, HTTP_PROXY, LIBRESTRICT, PATH'.
EnvironmentIsSeen == pc = "decide" /\ Matches => ball.environ = environ

\* Once the recipe, the environment and upstream stand still, rebuilding comes
\* to an end.
Settles == <>[](pc \notin {"again", "list", "execute", "certify"})
=============================================================================
