---------------------------- MODULE RecipeProofs ----------------------------
(* Theorems about Recipe, for every set of recipes and all bounds. *)
EXTENDS Recipe, TLAPS

-----------------------------------------------------------------------------
(* Lists of commands.  What a command shows is what its checksum hashes and  *)
(* the dictionary, which System gets, and the commands of AutogenMagic.      *)

Shows(c, d)  == c.env = CASE c.name = "System" -> d
                          [] c.name = "AutogenMagic" -> Autogen(d)
                          [] OTHER -> None
Shaped(s, d) == \E S : s \in Seq(S) /\ \A c \in S : Shows(c, d)

LEMMA ShapedEmpty == ASSUME NEW d PROVE Shaped(<<>>, d)
<1> DEFINE S == {}
<1>1. <<>> \in Seq(S)
  OBVIOUS
<1>2. \A e \in S : Shows(e, d)
  OBVIOUS
<1> HIDE DEF S
<1>3. QED
  BY <1>1, <1>2 DEF Shaped

LEMMA ShapedOne == ASSUME NEW c, NEW d, Shows(c, d) PROVE Shaped(<<c>>, d)
<1> DEFINE S == {c}
<1>1. <<c>> \in Seq(S)
  OBVIOUS
<1>2. \A e \in S : Shows(e, d)
  OBVIOUS
<1> HIDE DEF S
<1>3. QED
  BY <1>1, <1>2 DEF Shaped

LEMMA ShapedConcat ==
  ASSUME NEW s, NEW t, NEW d, Shaped(s, d), Shaped(t, d)
  PROVE  Shaped(s \o t, d)
<1>1. PICK S : s \in Seq(S) /\ \A c \in S : Shows(c, d)
  BY DEF Shaped
<1>2. PICK T : t \in Seq(T) /\ \A c \in T : Shows(c, d)
  BY DEF Shaped
<1>3. s \in Seq(S \cup T) /\ t \in Seq(S \cup T)
  BY <1>1, <1>2
<1>4. s \o t \in Seq(S \cup T)
  BY <1>3
<1>5. \A c \in S \cup T : Shows(c, d)
  BY <1>1, <1>2
<1>6. QED
  BY <1>4, <1>5 DEF Shaped

LEMMA ShapedAppend ==
  ASSUME NEW s, NEW c, NEW d, Shaped(s, d), Shows(c, d)
  PROVE  Shaped(Append(s, c), d)
<1>1. PICK S : s \in Seq(S) /\ \A e \in S : Shows(e, d)
  BY DEF Shaped
<1>2. Append(s, c) \in Seq(S \cup {c})
  BY <1>1
<1>3. \A e \in S \cup {c} : Shows(e, d)
  BY <1>1
<1>4. QED
  BY <1>2, <1>3 DEF Shaped

LEMMA ShapedTwo ==
  ASSUME NEW a, NEW b, NEW d, Shows(a, d), Shows(b, d)
  PROVE  Shaped(<<a, b>>, d)
<1> DEFINE S == {a, b}
<1>1. <<a, b>> \in Seq(S)
  OBVIOUS
<1>2. \A e \in S : Shows(e, d)
  OBVIOUS
<1> HIDE DEF S
<1>3. QED
  BY <1>1, <1>2 DEF Shaped

LEMMA ShapedThree ==
  ASSUME NEW a, NEW b, NEW c, NEW d, Shows(a, d), Shows(b, d), Shows(c, d)
  PROVE  Shaped(<<a, b, c>>, d)
<1> DEFINE S == {a, b, c}
<1>1. <<a, b, c>> \in Seq(S)
  OBVIOUS
<1>2. \A e \in S : Shows(e, d)
  OBVIOUS
<1> HIDE DEF S
<1>3. QED
  BY <1>1, <1>2 DEF Shaped

LEMMA CommandsShow ==
  ASSUME NEW d
  PROVE  /\ Shows(UpdateSourceDir, d) /\ Shows(AutogenMagic(d), d)
         /\ \A x : Shows(System(d, x), d) /\ Shows(Plain("Copy", x), d) /\ Shows(Func(x), d)
         /\ \A x, y : /\ Shows(MapLocate(x, y), d) /\ Shows(Dump(x, y), d)
                      /\ Shows(Substitute(x, y), d) /\ Shows(ShadowTree(x, y), d)
         /\ \A x : Shows(PackageGlobs(x, d), d)
BY DEF Shows, Command, UpdateSourceDir, System, Plain, Func, MapLocate, Dump, Substitute,
       ShadowTree, PackageGlobs, AutogenMagic

\* Each stage lists commands that show what they do, but for the dictionary.
LEMMA StagesShaped ==
  ASSUME NEW d
  PROVE  /\ Shaped(Untar, d) /\ Shaped(Patch(d), d) /\ Shaped(Autoupdate(d), d)
         /\ Shaped(Shadow(d), d) /\ Shaped(Configure(d), d) /\ Shaped(Compile(d), d)
         /\ Shaped(Install(d), d) /\ Shaped(SrcPackage(d), d) /\ Shaped(Package(d), d)
         /\ Shaped(Clean(d), d)
<1>1. Shaped(Untar, d) /\ Shaped(Patch(d), d)
  BY ShapedOne, CommandsShow DEF Untar, Patch
<1>2. Shaped(Autoupdate(d), d)
  BY ShapedEmpty, ShapedOne, ShapedTwo, ShapedConcat, CommandsShow DEF Autoupdate
<1>3. Shaped(Shadow(d), d) /\ Shaped(ConfigCache(d), d) /\ Shaped(AutoConfigure(d), d)
  <2>1. Shaped(Shadow(d), d)
    BY ShapedTwo, CommandsShow DEF Shadow
  <2>2. Shaped(ConfigCache(d), d)
    <3>1. Shows(System(d, "mkdir builddir"), d)
      BY CommandsShow
    <3>2. Shows(Dump(d.prefix_dir, "config.cache"), d)
      BY CommandsShow
    <3>3. QED
      BY <3>1, <3>2, ShapedTwo DEF ConfigCache
  <2>3. Shaped(AutoConfigure(d), d)
    BY ShapedTwo, CommandsShow DEF AutoConfigure
  <2>4. QED
    BY <2>1, <2>2, <2>3
<1>4. Shaped(UpdateLibtool, d)
  BY ShapedOne, CommandsShow DEF UpdateLibtool
<1>5. Shaped(Configure(d), d)
  <2>1. Shaped(Append(Shadow(d), System(d, <<"perl", d.prefix_dir>>)), d)
    <3>1. Shows(System(d, <<"perl", d.prefix_dir>>), d)
      BY CommandsShow
    <3>2. QED
      BY <1>3, <3>1, ShapedAppend
  <2>2. Shaped(ToolsConfigure(d), d)
    BY <1>3, <1>4, ShapedConcat DEF ToolsConfigure
  <2>3. Shaped(Shadow(d) \o ConfigCache(d) \o AutoConfigure(d) \o UpdateLibtool, d)
    BY <1>3, <1>4, ShapedConcat
  <2>4. Shaped(CrossConfigure(d), d)
    BY <1>3, ShapedConcat DEF CrossConfigure
  <2>5. QED
    BY <2>1, <2>2, <2>3, <2>4 DEF Configure
<1>6. Shaped(Compile(d), d) /\ Shaped(SrcPackage(d), d)
  BY ShapedOne, CommandsShow DEF Compile, SrcPackage
<1>7. Shaped(Install(d), d)
  <2>1. Shaped(PostInstall(d), d) /\ Shaped(ConfigScript(d), d) /\ Shaped(InstallMore(d), d)
    <3>1. Shaped(PostInstall(d), d)
      <4>1. Shaped(License, d)
        BY ShapedEmpty, ShapedOne, CommandsShow DEF License
      <4>2. Shaped(<<MapLocate("install_root", "lib*.la"), System(d, "rm info/dir")>>, d)
        BY ShapedTwo, CommandsShow
      <4>3. QED
        BY <4>1, <4>2, ShapedConcat DEF PostInstall
    <3>2. Shaped(ConfigScript(d), d)
      <4>1. Shows(System(d, "mkdir cross"), d)
        BY CommandsShow
      <4>2. Shows(System(d, <<"cp config_script", d.version>>), d)
        BY CommandsShow
      <4>3. Shows(Substitute(d.prefix_dir, "config_script"), d)
        BY CommandsShow
      <4>4. QED
        BY <4>1, <4>2, <4>3, ShapedThree DEF ConfigScript
    <3>3. Shaped(InstallMore(d), d)
      BY ShapedThree, CommandsShow DEF InstallMore
    <3>4. QED
      BY <3>1, <3>2, <3>3
  <2>2. Shaped(LibtoolFixup, d)
    BY ShapedOne, CommandsShow DEF LibtoolFixup
  <2>3. Shaped(AutoInstall(d), d)
    <3>1. Shaped(<<System(d, <<"rm install_root", d.version>>),
                   System(d, <<"make install", d.flags>>)>>, d)
      <4>1. Shows(System(d, <<"rm install_root", d.version>>), d)
        BY CommandsShow
      <4>2. Shows(System(d, <<"make install", d.flags>>), d)
        BY CommandsShow
      <4>3. QED
        BY <4>1, <4>2, ShapedTwo
    <3>2. QED
      BY <2>1, <3>1, ShapedConcat DEF AutoInstall
  <2>4. Shaped(LibtoolFixup \o AutoInstall(d) \o ConfigScript(d) \o InstallMore(d), d)
    BY <2>1, <2>2, <2>3, ShapedConcat
  <2>5. Shaped(<<System(d, "mkdir install_prefix")>>, d)
        /\ Shaped(<<System(d, "mkdir install_root")>>, d)
    BY ShapedOne, CommandsShow
  <2>6. Shaped(<<System(d, "mkdir install_root"), System(d, <<"tar srcdir", d.version>>),
                 MapLocate("install_root", "lib*.la")>>, d)
    <3>1. Shows(System(d, "mkdir install_root"), d)
      BY CommandsShow
    <3>2. Shows(System(d, <<"tar srcdir", d.version>>), d)
      BY CommandsShow
    <3>3. Shows(MapLocate("install_root", "lib*.la"), d)
      BY CommandsShow
    <3>4. QED
      BY <3>1, <3>2, <3>3, ShapedThree
  <2>7. Shaped(CrossInstall(d), d)
    <3>1. Shaped(<<System(d, "mkdir lib"), MapLocate("cross_dir", "lib*")>>, d)
      BY ShapedTwo, CommandsShow
    <3>2. QED
      BY <2>3, <3>1, ShapedConcat DEF CrossInstall
  <2>8. Shaped(PlainInstall(d), d)
    BY <2>5, <2>6 DEF PlainInstall
  <2>9. QED
    BY <2>3, <2>4, <2>7, <2>8 DEF Install
<1>8. Shaped(Package(d), d)
  <2>1. ASSUME NEW sub PROVE Shaped(Subpackage(d, sub), d)
    <3>1. Shaped(<<PackageGlobs(FileSpecs(sub), d), Dump(SetDict(d, sub), <<"hdr", sub>>)>>, d)
      BY ShapedTwo, CommandsShow
    <3>2. Shaped(<<System(d, <<"rm", FileSpecs(sub)>>)>>, d) /\ Shaped(<<>>, d)
      BY ShapedOne, ShapedEmpty, CommandsShow
    <3>3. QED
      BY <3>1, <3>2, ShapedConcat DEF Subpackage
  <2>2. Shaped(<<MapLocate("install_root", "*")>>, d) /\ Shaped(<<>>, d)
        /\ Shaped(<<System(d, "rm install_root")>>, d)
    BY ShapedOne, ShapedEmpty, CommandsShow
  <2>3. QED
    BY <2>1, <2>2, ShapedConcat DEF Package
<1>9. Shaped(Clean(d), d)
  BY ShapedOne, ShapedTwo, CommandsShow DEF Clean
<1>10. QED
  BY <1>1, <1>2, <1>3, <1>5, <1>6, <1>7, <1>8, <1>9

-----------------------------------------------------------------------------
(* What the text of a listing determines.  The package stage dumps the whole *)
(* dictionary into the header, at a place that the class of build fixes.     *)

Fields    == {"prefix_dir", "flags", "PATH", "added", "build_number", "full_version",
              "source_checksum", "version"}
IsDict(d) == d = [x \in Fields |-> d[x]]
HeaderAt  == IF HasSubpackages THEN 6 ELSE 3

ListOf(l, d) ==
  /\ l = [s \in DOMAIN l |-> l[s]]
  /\ \A s \in DOMAIN l : Shaped(l[s], d)
  /\ "package" \in DOMAIN l /\ HeaderAt \in DOMAIN l["package"]
  /\ l["package"][HeaderAt] = Dump(SetDict(d, ""), <<"hdr", "">>)

\* A sequence made of the parts that the package stage lists.
Parts(p, m, g2, h2, f, g1, h1, r, x) ==
  p = <<m>> \o (IF HasSubpackages THEN <<g2, h2>> \o <<f>> ELSE <<>>)
      \o (<<g1, h1>> \o <<>>) \o <<r>> \o <<x>>

LEMMA HeaderPlace ==
  ASSUME NEW p, NEW m, NEW g2, NEW h2, NEW f, NEW g1, NEW h1, NEW r, NEW x,
         Parts(p, m, g2, h2, f, g1, h1, r, x)
  PROVE  HeaderAt \in DOMAIN p /\ p[HeaderAt] = h1
<1>1. CASE HasSubpackages
  <2>1. p = <<m>> \o (<<g2, h2>> \o <<f>>) \o (<<g1, h1>> \o <<>>) \o <<r>> \o <<x>>
    BY <1>1 DEF Parts
  <2>2. 6 \in DOMAIN p /\ p[6] = h1
    BY <2>1
  <2>3. QED
    BY <1>1, <2>2 DEF HeaderAt
<1>2. CASE ~HasSubpackages
  <2>1. p = <<m>> \o <<>> \o (<<g1, h1>> \o <<>>) \o <<r>> \o <<x>>
    BY <1>2 DEF Parts
  <2>2. 3 \in DOMAIN p /\ p[3] = h1
    BY <2>1
  <2>3. QED
    BY <1>2, <2>2 DEF HeaderAt
<1>3. QED
  BY <1>1, <1>2

LEMMA ListingOf ==
  ASSUME NEW d, <<class, module>> \in Builds
  PROVE  ListOf(Listing(d), d)
<1> DEFINE l == Listing(d)
           Ending(s) == IF s = "clean" THEN <<>> ELSE SetDone(d, s)
<1>1. l = [s \in Stages |-> Commands(d)[s] \o Ending(s)]
  BY DEF Listing
<1>2. "package" \in Stages /\ Stages \subseteq AllStages \cup {"shadow"}
  BY DEF Stages, AllStages, Builds, TargetClasses, ToolsClasses, Tools32Classes,
        CrossClasses, PlainClasses, Classes
<1>3. ASSUME NEW s \in Stages
      PROVE  Shaped(Commands(d)[s] \o Ending(s), d)
  <2>1. Shaped(Commands(d)[s], d)
    BY <1>2, StagesShaped DEF Commands, AllStages
  <2>2. Shows(Dump(s, <<"stamp_file", d.source_checksum>>), d)
    BY CommandsShow
  <2>3. Shaped(Ending(s), d)
    BY <2>2, ShapedEmpty, ShapedOne DEF SetDone
  <2>4. QED
    BY <2>1, <2>3, ShapedConcat
<1> DEFINE p  == l["package"]
           m  == MapLocate("install_root", "*")
           g2 == PackageGlobs(FileSpecs(FirstSub), d)
           h2 == Dump(SetDict(d, FirstSub), <<"hdr", FirstSub>>)
           f  == System(d, <<"rm", FileSpecs(FirstSub)>>)
           g1 == PackageGlobs(FileSpecs(""), d)
           h1 == Dump(SetDict(d, ""), <<"hdr", "">>)
           r  == System(d, "rm install_root")
           x  == Dump("package", <<"stamp_file", d.source_checksum>>)
<1>4. Parts(p, m, g2, h2, f, g1, h1, r, x)
  <2>1. p = Package(d) \o SetDone(d, "package")
    BY <1>1, <1>2 DEF Commands
  <2>2. FirstSub # ""
    BY DEF FirstSub
  <2>3. QED
    BY <2>1, <2>2 DEF Parts, Package, Subpackage, SetDone
<1>5. HeaderAt \in DOMAIN p /\ p[HeaderAt] = h1
  <2> HIDE DEF p, m, g2, h2, f, g1, h1, r, x
  <2>1. QED
    BY <1>4, HeaderPlace
<1> HIDE DEF l
<1>6. QED
  <2>1. DOMAIN l = Stages /\ l = [s \in DOMAIN l |-> l[s]]
    BY <1>1
  <2>2. \A s \in DOMAIN l : Shaped(l[s], d)
    BY <1>1, <1>3
  <2>3. QED
    BY <1>2, <1>5, <2>1, <2>2 DEF ListOf, l

LEMMA SameText ==
  ASSUME NEW l, NEW m, NEW d, NEW e, IsDict(d), IsDict(e), ListOf(l, d), ListOf(m, e),
         Checksum(l) = Checksum(m)
  PROVE  d = e /\ Each(Shown, l) = Each(Shown, m)
<1>1. DOMAIN l = DOMAIN m
  BY DEF Checksum, Each
<1>2. ASSUME NEW s \in DOMAIN l
      PROVE  /\ DOMAIN l[s] = DOMAIN m[s]
             /\ \A i \in DOMAIN l[s] : Hash(l[s][i]) = Hash(m[s][i])
  BY <1>1 DEF Checksum, Each
<1>3. d = e
  <2>1. Hash(Dump(SetDict(d, ""), <<"hdr", "">>)) = Hash(Dump(SetDict(e, ""), <<"hdr", "">>))
    BY <1>1, <1>2 DEF ListOf
  <2>2. SetDict(d, "") = SetDict(e, "")
    BY <2>1 DEF Hash, Dump, Command
  <2>3. \A x \in Fields : d[x] = e[x]
    BY <2>2 DEF SetDict, Fields, IsDict
  <2>4. QED
    BY <2>3 DEF IsDict
<1>4. ASSUME NEW s \in DOMAIN l, NEW i \in DOMAIN l[s]
      PROVE  Shown(l[s][i]) = Shown(m[s][i])
  <2>1. ASSUME NEW q, Shaped(q, d), i \in DOMAIN q PROVE Shows(q[i], d)
    BY <2>1 DEF Shaped
  <2>2. Shaped(l[s], d) /\ Shaped(m[s], d) /\ i \in DOMAIN m[s]
    BY <1>1, <1>2, <1>3 DEF ListOf
  <2>3. Shows(l[s][i], d) /\ Shows(m[s][i], d)
    BY <2>1, <2>2
  <2>4. Hash(l[s][i]) = Hash(m[s][i])
    BY <1>2
  <2>5. QED
    BY <2>3, <2>4 DEF Shows, Hash, Shown
<1>5. QED
  BY <1>1, <1>2, <1>3, <1>4 DEF Each

-----------------------------------------------------------------------------
(* The same dictionary is listed alike for as long as the recipe, the        *)
(* attributes and the answer of source.version () do not change.             *)

LEMMA SameListing ==
  ASSUME NEW d, UNCHANGED <<kind, class, module, tree, recipe, attrs>>,
         SourceVersion' = SourceVersion
  PROVE  Listing(d)' = Listing(d)
<1>0. Autogen(d)' = Autogen(d)
  BY DEF Autogen, NeedsAutogen, ForcedAutogen, System
<1>1. Commands(d)' = Commands(d)
  <2>1. Untar' = Untar
    BY DEF Untar, UpdateSourceDir
  <2>2. Patch(d)' = Patch(d)
    BY DEF Patch, System
  <2>3. Autoupdate(d)' = Autoupdate(d)
    BY <1>0 DEF Autoupdate, AutogenMagic, Func, MapLocate
  <2>4. Shadow(d)' = Shadow(d)
    BY DEF Shadow
  <2>5. Configure(d)' = Configure(d)
    BY <2>4 DEF Configure, CrossConfigure, ToolsConfigure, AutoConfigure, UpdateLibtool,
                MapLocate, IsTool
  <2>6. Compile(d)' = Compile(d)
    BY DEF Compile
  <2>7. Install(d)' = Install(d)
    BY DEF Install, PlainInstall, CrossInstall, AutoInstall, PostInstall, License, Func,
           MapLocate, InstallMore, LibtoolFixup, IsTool
  <2>8. SrcPackage(d)' = SrcPackage(d)
    BY DEF SrcPackage
  <2>9. Package(d)' = Package(d)
    <3>1. /\ Subpackage(d, FirstSub)' = Subpackage(d, FirstSub)
          /\ Subpackage(d, "")' = Subpackage(d, "")
      BY DEF Subpackage, FileSpecs, FirstSub
    <3>2. QED
      BY <3>1 DEF Package, MapLocate, HasSubpackages
  <2>10. Clean(d)' = Clean(d)
    BY DEF Clean
  <2>11. QED
    BY <2>1, <2>2, <2>3, <2>4, <2>5, <2>6, <2>7, <2>8, <2>9, <2>10 DEF Commands
<1>2. Stages' = Stages
  BY DEF Stages
<1>3. QED
  BY <1>1, <1>2 DEF Listing

LEMMA SameAsked ==
  ASSUME UNCHANGED <<class, module, attrs, memo>>
  PROVE  Asked(memo)' = Asked(memo)
BY DEF Asked, Appended, Environment, ToolsEnvironment, Tools32Environment, CrossEnvironment

-----------------------------------------------------------------------------
(* The inductive invariant                                                   *)

\* The branch has gone on since the dictionary was made.
Behind(d) ==
  kind = "branch" /\ head # None /\ (d.full_version = Unset \/ d.full_version < head)

HeadInv ==
  /\ head # None => head <= upstream
  /\ kind = "tarball" => head = None
  /\ bound => head # None
MemoInv ==
  /\ pc = "idle" => memo = None /\ ~bound
  /\ kind = "branch" /\ memo # None =>
       memo.full_version = Unset \/ (bound /\ memo.full_version <= head)
DryInv ==
  pc \in {"decide", "again", "list", "execute", "certify"} =>
    /\ memo # None /\ ListOf(dry, Asked(memo))
    /\ DOMAIN dry \subseteq AllStages \cup {"shadow"}
\* The two passes list the same commands, or else the branch was fetched between
\* them, and then the dictionary is that of an earlier version.
PassInv ==
  /\ pc \in {"decide", "again", "list"} => dry = Listing(Asked(memo)) \/ Behind(memo)
  /\ pc \in {"execute", "certify"} => deferred = Unskipped(dry) \/ Behind(memo)
  /\ pc = "certify" => ball.work = Each(Shown, deferred)
\* The checksum file is of a list of commands with a dictionary d.  If others were
\* executed no further dictionary will be d.
WorkOf(l) == Each(Shown, Unskipped(l))
Outdated(d) ==
  /\ Behind(d)
  /\ pc # "idle" => bound
  /\ memo # None => /\ memo.full_version \in Versions
                    /\ d.full_version = Unset \/ d.full_version < memo.full_version
VouchInv ==
  pc # "certify" /\ file # None =>
    \E l, d : /\ IsDict(d) /\ d.full_version \in Versions \cup {Unset}
              /\ ListOf(l, d) /\ file = Checksum(l)
              /\ ball.work = WorkOf(l) \/ Outdated(d)
IInv == TypeOK /\ HeadInv /\ MemoInv /\ DryInv /\ PassInv /\ VouchInv

LEMMA InitIInv == Init => IInv
<1> SUFFICES ASSUME Init PROVE IInv
  OBVIOUS
<1>1. 0 \in Versions /\ None \notin Versions /\ Unset \notin Versions
  BY ValuesAssumption, BoundsAssumption DEF Versions
<1>2. <<kind, class, module, tree>> \in Recipes
  <2>1. PICK r \in Recipes : kind = r[1] /\ class = r[2] /\ module = r[3] /\ tree = r[4]
    BY DEF Init
  <2>2. PICK k \in Kinds, b \in Builds, t \in SUBSET TreeFiles : r = <<k, b[1], b[2], t>>
    BY RecipesAssumption
  <2>3. QED
    BY <2>1, <2>2
<1>3. TypeOK
  <2>1. attrs \in [build : Texts, settings : Texts, PATH : Texts \X Texts]
    BY DEF Init, NoAttrs, Texts
  <2>2. /\ recipe \in [flags : Texts, func : Texts]
        /\ environ \in [Variables -> Texts]
        /\ changes \in 0..MaxChanges
    BY BoundsAssumption DEF Init, Texts
  <2>3. QED
    BY <1>1, <1>2, <2>1, <2>2 DEF Init, TypeOK
<1>4. QED
  BY <1>1, <1>3 DEF Init, IInv, HeadInv, MemoInv, DryInv, PassInv, VouchInv

-----------------------------------------------------------------------------
(* Steps                                                                     *)

LEMMA RecipeKnown ==
  ASSUME TypeOK
  PROVE  kind \in Kinds /\ <<class, module>> \in Builds
<1>1. PICK k \in Kinds, b \in Builds, t \in SUBSET TreeFiles :
        <<kind, class, module, tree>> = <<k, b[1], b[2], t>>
  BY RecipesAssumption DEF TypeOK
<1>2. <<b[1], b[2]>> = b
  BY DEF Builds
<1>3. QED
  BY <1>1, <1>2

\* What is built stays what it is, and branches only move forward.
LEMMA StepMoves ==
  ASSUME TypeOK, [Next]_vars
  PROVE  /\ UNCHANGED <<kind, class, module, tree>>
         /\ head' = head \/ (head' = upstream /\ kind = "branch")
         /\ upstream' \in Versions /\ upstream <= upstream'
<1>1. CASE UNCHANGED vars
  BY <1>1 DEF vars, world, TypeOK, Versions
<1>2. CASE Step
  <2>1. CASE Memoise
    <3>1. UNCHANGED <<kind, class, module, tree, upstream>>
      BY <2>1 DEF Memoise
    <3>2. upstream \in Int
      BY BoundsAssumption DEF TypeOK, Versions
    <3>3. head' = head \/ (head' = upstream /\ ~IsDownloaded)
      BY <2>1 DEF Memoise
    <3>4. QED
      BY <3>1, <3>2, <3>3, RecipeKnown DEF TypeOK, Kinds, IsDownloaded
  <2>2. CASE Download
    BY <2>2 DEF Download, TypeOK, Versions
  <2>3. CASE DryRun \/ NothingToDo \/ MustRebuild \/ Defer \/ Execute \/ WriteChecksum
    BY <2>3 DEF DryRun, NothingToDo, MustRebuild, Defer, Execute, WriteChecksum, world,
                TypeOK, Versions
  <2>4. QED
    BY <1>2, <2>1, <2>2, <2>3 DEF Step
<1>3. CASE \E o \in BOOLEAN : Begin(o)
  BY <1>3 DEF Begin, world, TypeOK, Versions
<1>4. CASE \E owner \in {"build", "settings"}, s \in Texts : SetAttr(owner, s)
  BY <1>4 DEF SetAttr, world, TypeOK, Versions
<1>5. CASE (\E field \in {"flags", "func"} : Edit(field)) \/ (\E v \in Names : SetVariable(v))
  BY <1>5 DEF Edit, SetVariable, world, TypeOK, Versions
<1>6. CASE MakeVersions \/ Commit \/ OtherFetch \/ InstallClient
  BY <1>6, BoundsAssumption DEF MakeVersions, Commit, OtherFetch, InstallClient, TypeOK, Versions
<1>7. QED
  BY <1>1, <1>2, <1>3, <1>4, <1>5, <1>6 DEF Next

LEMMA DictionaryType ==
  ASSUME TypeOK, HeadInv, NEW b \in BOOLEAN, NEW h \in Versions \cup {None}, kind = "branch" /\ b => h # None
  PROVE  Dictionary(b, h) \in Dictionaries
<1>1. ChecksumAt(h) \in Versions \cup {Invalid}
  BY BoundsAssumption DEF ChecksumAt, Versions
<1>2. VersionAt(b, h) \in Versions \cup {Unset}
  BY BoundsAssumption, RecipeKnown DEF VersionAt, Versions, Kinds
<1>3. SourceVersion \in Versions \cup {Unset}
  BY BoundsAssumption, RecipeKnown DEF SourceVersion, VersionAt, Versions, Kinds, TypeOK, HeadInv
<1>4. attrs.settings \in Texts /\ attrs.build \in Texts
  BY DEF TypeOK
<1>5. Methods(b, h).build_number \in {0, 1}
  BY DEF Methods
<1>6. QED
  BY <1>1, <1>2, <1>3, <1>4, <1>5 DEF Dictionary, Recursed, Dictionaries, Methods

LEMMA TypeStep ==
  ASSUME IInv, [Next]_vars
  PROVE  TypeOK'
<1>t. TypeOK
  BY DEF IInv
<1>0. /\ <<kind, class, module, tree>>' \in Recipes /\ upstream' \in Versions
      /\ head' \in Versions \cup {None}
  BY <1>t, StepMoves DEF TypeOK
<1>e. ASSUME EndRun
      PROVE  /\ pc' = "idle" /\ offline' = FALSE /\ bound' = FALSE /\ memo' = None
             /\ attrs' \in [build : Texts, settings : Texts, PATH : Texts \X Texts]
  BY <1>e DEF EndRun, NoAttrs, Texts
<1>1. CASE UNCHANGED vars
  BY <1>t, <1>1 DEF vars, world, disk, memory, TypeOK
<1>2. CASE Memoise
  <2>1. CASE ~IsDownloaded /\ client
    <3>1. memo' = Dictionary(TRUE, upstream) /\ upstream \in Versions \cup {None}
          /\ upstream # None
      BY <1>t, <1>2, <2>1, ValuesAssumption DEF Memoise, TypeOK
    <3>2. memo' \in Dictionaries
      BY <1>t, <3>1, DictionaryType DEF IInv
    <3>3. bound' = TRUE /\ pc' \in {"fetch", "dry"}
      BY <1>2, <2>1 DEF Memoise
    <3>4. QED
      BY <1>t, <1>0, <1>2, <3>2, <3>3 DEF Memoise, TypeOK, disk
  <2>2. CASE ~(~IsDownloaded /\ client)
    <3>1. memo' = Dictionary(bound, head) /\ bound' = bound /\ pc' \in {"fetch", "dry"}
      BY <1>2, <2>2 DEF Memoise
    <3>2. memo' \in Dictionaries
      BY <1>t, <3>1, DictionaryType DEF IInv, HeadInv, TypeOK
    <3>3. QED
      BY <1>t, <1>0, <1>2, <3>1, <3>2 DEF Memoise, TypeOK, disk
  <2>3. QED
    BY <2>1, <2>2
<1>3. CASE Download
  BY <1>t, <1>0, <1>3 DEF Download, TypeOK, disk
<1>4. CASE DryRun
  BY <1>t, <1>0, <1>4 DEF DryRun, Kept, TypeOK, world, disk
<1>5. CASE NothingToDo
  BY <1>t, <1>0, <1>5 DEF NothingToDo, EndRun, NoAttrs, Texts, TypeOK, world, disk
<1>6. CASE MustRebuild
  BY <1>t, <1>0, <1>6 DEF MustRebuild, Goto, TypeOK, world, disk
<1>7. CASE Defer
  BY <1>t, <1>0, <1>7 DEF Defer, Kept, TypeOK, world, disk
<1>8. CASE Execute
  <2>1. memo \in Dictionaries
    BY <1>t, <1>8 DEF Execute, IInv, DryInv, TypeOK
  <2>2. memo.source_checksum \in Versions \cup {Invalid} /\ memo.source_checksum # None
    BY <2>1, ValuesAssumption DEF Dictionaries
  <2>3. CASE IsDownloaded \/ "untar" \notin Stages
    <3>1. ball' = [work |-> Each(Shown, deferred), environ |-> environ] /\ hdr' = memo.source_checksum
      BY <1>8, <2>3 DEF Execute
    <3>2. QED
      BY <1>t, <1>0, <1>8, <2>2, <2>3, <3>1 DEF Execute, Goto, TypeOK, world
  <2>4. CASE ~(IsDownloaded \/ "untar" \notin Stages)
    <3>1. EndRun /\ UNCHANGED <<ball, hdr>>
      BY <1>8, <2>4 DEF Execute
    <3>2. QED
      BY <1>t, <1>0, <1>8, <1>e, <3>1 DEF Execute, TypeOK, world
  <2>5. QED
    BY <2>3, <2>4
<1>9. CASE WriteChecksum
  <2>1. DOMAIN file' \subseteq AllStages \cup {"shadow"}
    BY <1>9 DEF WriteChecksum, Written, Checksum, Each, IInv, DryInv
  <2>2. QED
    BY <1>t, <1>0, <1>9, <2>1 DEF WriteChecksum, EndRun, NoAttrs, Texts, TypeOK, world
<1>10. CASE \E o \in BOOLEAN : Begin(o)
  <2>1. PICK o \in BOOLEAN : Begin(o)
    BY <1>10
  <2>2. attrs' \in [build : Texts, settings : Texts, PATH : Texts \X Texts]
    BY <1>t, <2>1 DEF Begin, Settings, SettingsPath, ToolsPrefix, TypeOK, Variables
  <2>3. bound' \in BOOLEAN /\ pc' \in {"dry", "fetch", "expand"} /\ offline' \in BOOLEAN
    BY <2>1 DEF Begin
  <2>4. QED
    BY <1>t, <1>0, <2>1, <2>2, <2>3 DEF Begin, TypeOK, world, disk
<1>11. CASE \E owner \in {"build", "settings"}, s \in Texts : SetAttr(owner, s)
  <2>1. PICK owner \in {"build", "settings"}, s \in Texts : SetAttr(owner, s)
    BY <1>11
  <2>2. changes' \in 0..MaxChanges
    BY <1>t, <2>1, BoundsAssumption DEF SetAttr, TypeOK
  <2>3. CASE TooLate(owner)
    <3>1. EndRun
      BY <2>1, <2>3 DEF SetAttr
    <3>2. QED
      BY <1>t, <1>0, <1>e, <2>1, <2>2, <3>1 DEF SetAttr, TypeOK, world, disk
  <2>4. CASE ~TooLate(owner)
    <3>1. attrs' = [attrs EXCEPT ![owner] = s]
          /\ UNCHANGED <<pc, offline, memo, bound>>
      BY <2>1, <2>4 DEF SetAttr
    <3>2. attrs' \in [build : Texts, settings : Texts, PATH : Texts \X Texts]
      BY <1>t, <3>1 DEF TypeOK
    <3>3. QED
      BY <1>t, <1>0, <2>1, <2>2, <3>1, <3>2 DEF SetAttr, TypeOK, world, disk
  <2>5. QED
    BY <2>3, <2>4
<1>12. CASE \E field \in {"flags", "func"} : Edit(field)
  <2>1. PICK field \in {"flags", "func"} : Edit(field)
    BY <1>12
  <2>2. recipe' \in [flags : Texts, func : Texts] /\ changes' \in 0..MaxChanges
    BY <1>t, <2>1, BoundsAssumption DEF Edit, Texts, TypeOK
  <2>3. QED
    BY <1>t, <1>0, <2>1, <2>2 DEF Edit, TypeOK, world, memory
<1>13. CASE \E v \in Names : SetVariable(v)
  <2>1. PICK v \in Names : SetVariable(v)
    BY <1>13
  <2>2. environ' \in [Variables -> Texts] /\ changes' \in 0..MaxChanges
    BY <1>t, <2>1, BoundsAssumption, NamesAssumption DEF SetVariable, Texts, TypeOK
  <2>3. QED
    BY <1>t, <1>0, <2>1, <2>2 DEF SetVariable, TypeOK, world, memory
<1>14. CASE MakeVersions
  <2>1. changes' \in 0..MaxChanges
    BY <1>t, <1>14, BoundsAssumption DEF MakeVersions, TypeOK
  <2>2. QED
    BY <1>t, <1>0, <1>14, <2>1 DEF MakeVersions, TypeOK, disk, memory
<1>15. CASE Commit \/ OtherFetch \/ InstallClient
  <2>1. UNCHANGED <<versions, disk, pc, memory, changes>> /\ client' \in BOOLEAN
    BY <1>t, <1>15 DEF Commit, OtherFetch, InstallClient, TypeOK
  <2>2. QED
    BY <1>t, <1>0, <2>1 DEF TypeOK, disk, memory
<1>16. QED
  BY <1>1, <1>2, <1>3, <1>4, <1>5, <1>6, <1>7, <1>8, <1>9, <1>10, <1>11, <1>12, <1>13,
     <1>14, <1>15 DEF Next, Step

LEMMA HeadGrows ==
  ASSUME TypeOK, HeadInv, [Next]_vars
  PROVE  /\ head # None => /\ head \in Int /\ head' \in Int
                           /\ head' # None /\ head <= head'
         /\ upstream \in Int /\ upstream # None
BY StepMoves, ValuesAssumption, BoundsAssumption DEF TypeOK, HeadInv, Versions

\* A step leaves the objects of a run alone, or is one of the process's own.
LEMMA MemoryKept ==
  ASSUME [Next]_vars
  PROVE  \/ UNCHANGED <<kind, class, module, tree, pc, memory, ball, file>>
            /\ (pc = "idle" \/ recipe' = recipe)
         \/ Step \/ (\E o \in BOOLEAN : Begin(o))
         \/ \E owner \in {"build", "settings"}, s \in Texts : SetAttr(owner, s)
<1>1. CASE UNCHANGED vars
  BY <1>1 DEF vars, world, disk, memory
<1>2. CASE (\E field \in {"flags", "func"} : Edit(field)) \/ (\E v \in Names : SetVariable(v))
  BY <1>2 DEF Edit, SetVariable, world
<1>3. CASE MakeVersions \/ Commit \/ OtherFetch \/ InstallClient
  BY <1>3 DEF MakeVersions, Commit, OtherFetch, InstallClient, disk
<1>4. QED
  BY <1>1, <1>2, <1>3 DEF Next

LEMMA HeadStep ==
  ASSUME IInv, [Next]_vars
  PROVE  HeadInv'
<1>0. TypeOK /\ HeadInv
  BY DEF IInv
<1>1. head' # None => head' <= upstream'
  BY <1>0, StepMoves, HeadGrows DEF HeadInv, TypeOK, Versions
<1>2. kind' = "tarball" => head' = None
  BY <1>0, StepMoves DEF HeadInv
<1>3. bound' => bound' = bound \/ head' = upstream \/ (kind = "branch" /\ IsDownloaded)
  <2>1. CASE Step
    BY <2>1 DEF Step, Memoise, Download, DryRun, NothingToDo, MustRebuild, Defer, Execute,
                WriteChecksum, Goto, EndRun
  <2>2. CASE \E o \in BOOLEAN : Begin(o)
    BY <2>2 DEF Begin
  <2>3. CASE \E owner \in {"build", "settings"}, s \in Texts : SetAttr(owner, s)
    BY <2>3 DEF SetAttr, EndRun
  <2>4. QED
    BY <2>1, <2>2, <2>3, MemoryKept DEF memory
<1>4. bound' => head' # None
  BY <1>0, <1>3, HeadGrows DEF HeadInv, IsDownloaded
<1>5. QED
  BY <1>1, <1>2, <1>4 DEF HeadInv

\* The version in a dictionary is one that the branch has, or had.
LEMMA MemoStep ==
  ASSUME IInv, [Next]_vars
  PROVE  MemoInv'
<1>0. TypeOK /\ HeadInv /\ MemoInv
  BY DEF IInv
<1> DEFINE Known(m, b, h) == kind = "branch" /\ m # None =>
                               m.full_version = Unset \/ (b /\ m.full_version <= h)
<1>1. ASSUME memo' = memo, bound => bound' PROVE Known(memo', bound', head')
  <2>1. CASE kind = "branch" /\ memo # None /\ memo.full_version # Unset
    <3>1. bound /\ memo.full_version <= head /\ head # None
      BY <1>0, <2>1 DEF MemoInv, HeadInv
    <3>2. memo.full_version \in Int
      BY <1>0, <2>1, BoundsAssumption DEF TypeOK, Dictionaries, Versions
    <3>3. QED
      BY <1>0, <1>1, <3>1, <3>2, HeadGrows
  <2>2. QED
    BY <1>1, <2>1
<1>2. ASSUME Memoise PROVE Known(memo', bound', head')
  <2>1. \A b, h : Dictionary(b, h).full_version = SourceVersion
    BY DEF Dictionary, Recursed, Methods
  <2>2. CASE ~IsDownloaded /\ client
    <3>1. memo' = Dictionary(TRUE, upstream)
      BY <1>2, <2>2 DEF Memoise
    <3>2. ~bound /\ kind # "tarball"
      BY <1>0, <2>2 DEF IsDownloaded, HeadInv
    <3>3. SourceVersion = Unset
      BY <3>2 DEF SourceVersion, VersionAt
    <3>4. QED
      BY <2>1, <3>1, <3>3
  <2>3. CASE ~(~IsDownloaded /\ client)
    <3>1. memo' = Dictionary(bound, head) /\ UNCHANGED <<head, bound>>
      BY <1>2, <2>3 DEF Memoise
    <3>2. kind = "branch" => SourceVersion = IF bound THEN head ELSE Unset
      BY DEF SourceVersion, VersionAt
    <3>3. bound => head <= head
      BY <1>0, HeadGrows DEF HeadInv
    <3>4. QED
      BY <1>0, <2>1, <3>1, <3>2, <3>3 DEF TypeOK
  <2>4. QED
    BY <2>2, <2>3
<1>3. CASE Step
  <2>1. CASE Memoise
    <3>1. pc' # "idle"
      BY <2>1 DEF Memoise
    <3>2. QED
      BY <1>0, <1>2, <2>1, <3>1, StepMoves DEF MemoInv
  <2>2. CASE Download
    <3>1. pc' # "idle" /\ memo' = memo /\ (bound => bound')
      BY <2>2 DEF Download
    <3>2. QED
      BY <1>0, <1>1, <3>1, StepMoves DEF MemoInv
  <2>3. CASE EndRun
    BY <2>3 DEF EndRun, MemoInv
  <2>4. CASE ~EndRun /\ (DryRun \/ MustRebuild \/ Defer \/ Execute)
    <3>1. pc' # "idle" /\ memo' = memo /\ bound' = bound
      BY <2>4 DEF DryRun, MustRebuild, Defer, Execute, Goto, Kept
    <3>2. QED
      BY <1>0, <1>1, <3>1, StepMoves DEF MemoInv
  <2>5. QED
    BY <1>3, <2>1, <2>2, <2>3, <2>4 DEF Step, NothingToDo, WriteChecksum
<1>4. CASE \E o \in BOOLEAN : Begin(o)
  <2>1. PICK o \in BOOLEAN : Begin(o)
    BY <1>4
  <2>2. memo' = None /\ pc' # "idle"
    BY <1>0, <2>1 DEF Begin, MemoInv
  <2>3. QED
    BY <2>2 DEF MemoInv
<1>5. CASE \E owner \in {"build", "settings"}, s \in Texts : SetAttr(owner, s)
  <2>1. CASE EndRun
    BY <2>1 DEF EndRun, MemoInv
  <2>2. CASE ~EndRun
    <3>1. pc' # "idle" /\ memo' = memo /\ bound' = bound
      BY <1>5, <2>2 DEF SetAttr
    <3>2. QED
      BY <1>0, <1>1, <3>1, StepMoves DEF MemoInv
  <2>3. QED
    BY <2>1, <2>2
<1>6. CASE UNCHANGED <<pc, memory>>
  BY <1>0, <1>1, <1>6, StepMoves DEF MemoInv, memory
<1>7. QED
  BY <1>3, <1>4, <1>5, <1>6, MemoryKept

\* How a run gets into each phase and what it keeps there.
LEMMA Phases ==
  ASSUME IInv, [Next]_vars
  PROVE  /\ pc' \in {"decide", "again", "list"} =>
              \/ DryRun
              \/ /\ pc \in {"decide", "again", "list"}
                 /\ UNCHANGED <<recipe, attrs, memo, dry>>
                 /\ bound' = bound \/ (bound' /\ head' = upstream /\ kind = "branch")
         /\ pc' = "execute" => Defer \/ UNCHANGED <<pc, attrs, memo, dry, deferred, ball>>
         /\ pc' = "certify" => Execute \/ UNCHANGED <<pc, attrs, memo, dry, deferred, ball>>
<1>1. CASE Step
  <2>1. CASE Memoise
    BY <2>1 DEF Memoise
  <2>2. CASE Download
    BY <2>2 DEF Download, disk
  <2>3. CASE NothingToDo \/ WriteChecksum
    BY <2>3 DEF NothingToDo, WriteChecksum, EndRun
  <2>4. CASE MustRebuild
    BY <2>4 DEF MustRebuild, Goto, disk
  <2>5. CASE Defer
    BY <2>5 DEF Defer
  <2>6. CASE Execute
    BY <2>6 DEF Execute, EndRun, Goto
  <2>7. CASE DryRun
    BY <2>7 DEF DryRun
  <2>8. QED
    BY <1>1, <2>1, <2>2, <2>3, <2>4, <2>5, <2>6, <2>7 DEF Step
<1>2. CASE \E o \in BOOLEAN : Begin(o)
  BY <1>2 DEF Begin
<1>3. CASE \E owner \in {"build", "settings"}, s \in Texts : SetAttr(owner, s)
  <2>1. pc \in {"decide", "again", "list", "execute", "certify"} => memo # None
    BY DEF IInv, DryInv
  <2>2. EndRun \/ (memo = None /\ pc' = pc /\ pc # "certify")
    BY <1>3 DEF SetAttr, TooLate
  <2>3. QED
    BY <2>1, <2>2 DEF EndRun
<1>4. CASE UNCHANGED <<kind, class, module, tree, pc, memory, ball, file>>
           /\ (pc = "idle" \/ recipe' = recipe)
  BY <1>4 DEF memory
<1>5. QED
  BY <1>1, <1>2, <1>3, <1>4, MemoryKept

LEMMA ListOfKept ==
  ASSUME UNCHANGED <<class, module, tree>>, NEW l, NEW d, ListOf(l, d)
  PROVE  ListOf(l, d)'
<1>1. Autogen(d)' = Autogen(d)
  BY DEF Autogen, NeedsAutogen, ForcedAutogen, System
<1>2. \A s : Shaped(s, d)' <=> Shaped(s, d)
  BY <1>1 DEF Shaped, Shows
<1>3. QED
  BY <1>2 DEF ListOf, HeaderAt, HasSubpackages

\* A dictionary of the right fields is copied by whoever adds to it.
LEMMA AskedIsDict ==
  ASSUME memo \in Dictionaries
  PROVE  IsDict(Asked(memo)) /\ Asked(memo).full_version = memo.full_version
<1>1. memo = [x \in Fields |-> memo[x]]
  BY DEF Dictionaries, Fields
<1>2. QED
  BY <1>1 DEF IsDict, Asked, Appended, Environment, ToolsEnvironment, Tools32Environment,
              CrossEnvironment, Fields

LEMMA DryStep ==
  ASSUME IInv, [Next]_vars
  PROVE  DryInv'
<1> DEFINE D == {"decide", "again", "list", "execute", "certify"}
<1>0. UNCHANGED <<class, module, tree>>
  BY StepMoves DEF IInv
<1>1. CASE DryRun
  <2>1. memo' = memo /\ memo # None /\ UNCHANGED attrs /\ dry' = Listing(Asked(memo))
    BY <1>1 DEF DryRun, Kept
  <2>2. ListOf(dry', Asked(memo))
    BY <2>1, ListingOf, RecipeKnown DEF IInv
  <2>3. ListOf(dry, Asked(memo))'
    BY <1>0, <2>1, <2>2, SameAsked, ListOfKept
  <2>4. DOMAIN dry' \subseteq AllStages \cup {"shadow"}
    <3>1. DOMAIN dry' = Stages
      BY <2>1 DEF Listing
    <3>2. QED
      BY <3>1, RecipeKnown DEF Stages, AllStages, Builds, TargetClasses, ToolsClasses, Tools32Classes,
        CrossClasses, PlainClasses, Classes, IInv
  <2>5. QED
    BY <2>1, <2>3, <2>4 DEF DryInv
<1>2. CASE pc \in D /\ UNCHANGED <<attrs, memo, dry>>
  <2>1. ListOf(dry, Asked(memo))'
    BY <1>0, <1>2, SameAsked, ListOfKept DEF IInv, DryInv
  <2>2. QED
    BY <1>2, <2>1 DEF IInv, DryInv
<1>3. CASE pc' \notin D
  BY <1>3 DEF DryInv
<1>4. CASE (Defer \/ Execute) /\ pc' \in D
  <2>1. pc \in D /\ UNCHANGED <<attrs, memo, dry>>
    BY <1>4 DEF Defer, Execute, EndRun, Goto, Kept
  <2>2. QED
    BY <1>2, <2>1
<1>5. QED
  BY <1>1, <1>2, <1>3, <1>4, Phases

LEMMA BehindKept ==
  ASSUME TypeOK, HeadInv, [Next]_vars,
         NEW d, d.full_version \in Versions \cup {Unset}, Behind(d)
  PROVE  Behind(d)'
<1>1. head # None /\ head' # None /\ head \in Int /\ head' \in Int /\ head <= head'
  BY HeadGrows DEF Behind
<1>2. kind' = "branch"
  BY StepMoves DEF Behind
<1>3. CASE d.full_version = Unset
  BY <1>1, <1>2, <1>3 DEF Behind
<1>4. CASE d.full_version # Unset
  <2>1. d.full_version \in Int /\ d.full_version < head
    BY <1>4, BoundsAssumption DEF Behind, Versions
  <2>2. QED
    BY <1>1, <1>2, <2>1 DEF Behind
<1>5. QED
  BY <1>3, <1>4

\* Between the passes only the source can move.
LEMMA PassStep ==
  ASSUME IInv, [Next]_vars
  PROVE  PassInv'
<1>0. /\ TypeOK /\ HeadInv /\ MemoInv /\ DryInv /\ PassInv
      /\ UNCHANGED <<kind, class, module, tree>>
  BY StepMoves DEF IInv
<1>1. memo' = memo /\ memo # None /\ Behind(memo) => Behind(memo)'
  <2>1. memo \in Dictionaries => memo.full_version \in Versions \cup {Unset}
    BY DEF Dictionaries
  <2>2. Behind(memo) /\ memo \in Dictionaries => \A d : d = memo => Behind(d)'
    BY <1>0, <2>1, BehindKept
  <2>3. QED
    BY <1>0, <2>2 DEF TypeOK, Behind
<1>2. ASSUME pc' \in {"decide", "again", "list"}
      PROVE  (dry = Listing(Asked(memo)) \/ Behind(memo))'
  <2>1. CASE DryRun
    <3>1. /\ UNCHANGED <<recipe, attrs, memo, bound>> /\ head' = head
          /\ dry' = Listing(Asked(memo))
      BY <2>1 DEF DryRun, Kept, disk, world
    <3>2. SourceVersion' = SourceVersion
      BY <1>0, <3>1 DEF SourceVersion, VersionAt
    <3>3. QED
      BY <1>0, <3>1, <3>2, SameAsked, SameListing
  <2>2. CASE /\ pc \in {"decide", "again", "list"}
             /\ UNCHANGED <<recipe, attrs, memo, dry>>
             /\ bound' = bound \/ (bound' /\ head' = upstream /\ kind = "branch")
    <3>1. memo # None /\ (dry = Listing(Asked(memo)) \/ Behind(memo))
      BY <1>0, <2>2 DEF DryInv, PassInv
    <3>2. CASE Behind(memo)
      BY <1>1, <2>2, <3>1, <3>2
    <3>3. CASE dry = Listing(Asked(memo)) /\ SourceVersion' = SourceVersion
      BY <1>0, <2>2, <3>3, SameAsked, SameListing
    <3>4. CASE SourceVersion' # SourceVersion
      <4>1. kind = "branch" /\ kind' = "branch"
        BY <1>0, <3>4, RecipeKnown DEF SourceVersion, VersionAt, Kinds
      <4>2. bound' /\ (bound => head' # head)
        BY <1>0, <2>2, <3>4, <4>1 DEF SourceVersion, VersionAt, TypeOK
      <4>3. head' # None /\ head' \in Int
        <5>1. head' # None
          BY <4>2, HeadStep DEF HeadInv
        <5>2. QED
          BY <1>0, <5>1, StepMoves, BoundsAssumption DEF TypeOK, Versions
      <4>4. memo.full_version = Unset \/ memo.full_version < head'
        <5>1. CASE bound /\ memo.full_version # Unset
          <6>1. memo.full_version <= head /\ head # None
            BY <1>0, <3>1, <4>1, <5>1 DEF MemoInv, HeadInv
          <6>2. memo.full_version \in Int
            BY <1>0, <3>1, <5>1, BoundsAssumption DEF TypeOK, Dictionaries, Versions
          <6>3. head \in Int /\ head <= head'
            BY <1>0, <6>1, HeadGrows
          <6>4. QED
            BY <4>2, <4>3, <5>1, <6>1, <6>2, <6>3
        <5>2. CASE ~bound
          BY <1>0, <3>1, <4>1, <5>2 DEF MemoInv
        <5>3. QED
          BY <5>1, <5>2
      <4>5. QED
        BY <2>2, <4>1, <4>3, <4>4 DEF Behind
    <3>5. QED
      BY <3>1, <3>2, <3>3, <3>4
  <2>3. QED
    BY <1>2, <2>1, <2>2, Phases
<1>3. ASSUME pc' = "execute"
      PROVE  (deferred = Unskipped(dry) \/ Behind(memo))'
  <2>1. CASE Defer
    <3>1. /\ pc = "list" /\ UNCHANGED <<memo, dry>> 
          /\ deferred' = Unskipped(Listing(Asked(memo)))
      BY <2>1 DEF Defer, Kept
    <3>2. memo # None /\ (dry = Listing(Asked(memo)) \/ Behind(memo))
      BY <1>0, <3>1 DEF DryInv, PassInv
    <3>3. CASE Behind(memo)
      BY <1>1, <3>1, <3>2, <3>3
    <3>4. CASE dry = Listing(Asked(memo))
      BY <3>1, <3>4 DEF Unskipped
    <3>5. QED
      BY <3>2, <3>3, <3>4
  <2>2. CASE UNCHANGED <<pc, attrs, memo, dry, deferred, ball>>
    <3>1. memo # None /\ (deferred = Unskipped(dry) \/ Behind(memo))
      BY <1>0, <1>3, <2>2 DEF DryInv, PassInv
    <3>2. QED
      BY <1>1, <2>2, <3>1 DEF Unskipped
  <2>3. QED
    BY <1>3, <2>1, <2>2, Phases
<1>4. ASSUME pc' = "certify"
      PROVE  (/\ deferred = Unskipped(dry) \/ Behind(memo)
              /\ ball.work = Each(Shown, deferred))'
  <2>1. CASE Execute
    <3>1. pc = "execute" /\ UNCHANGED <<memo, dry, deferred>>
          /\ ball' = [work |-> Each(Shown, deferred), environ |-> environ]
      BY <1>4, <2>1 DEF Execute, Goto, EndRun
    <3>2. memo # None /\ (deferred = Unskipped(dry) \/ Behind(memo))
      BY <1>0, <3>1 DEF DryInv, PassInv
    <3>3. QED
      BY <1>1, <3>1, <3>2 DEF Unskipped, Each, Shown
  <2>2. CASE UNCHANGED <<pc, attrs, memo, dry, deferred, ball>>
    <3>1. /\ memo # None /\ (deferred = Unskipped(dry) \/ Behind(memo))
          /\ ball.work = Each(Shown, deferred)
      BY <1>0, <1>4, <2>2 DEF DryInv, PassInv
    <3>2. QED
      BY <1>1, <2>2, <3>1 DEF Unskipped, Each, Shown
  <2>3. QED
    BY <1>4, <2>1, <2>2, Phases
<1>5. QED
  BY <1>2, <1>3, <1>4 DEF PassInv

\* What vouches for the work stays so, or its dictionary stays outdated.
LEMMA OutdatedKept ==
  ASSUME IInv, [Next]_vars, pc # "certify",
         NEW d, d.full_version \in Versions \cup {Unset}, Outdated(d)
  PROVE  Outdated(d)'
<1>0. /\ TypeOK /\ HeadInv /\ MemoInv
      /\ Behind(d) /\ head # None /\ kind = "branch"
  BY DEF IInv, Outdated, Behind
<1>1. Behind(d)'
  BY <1>0, BehindKept
<1> DEFINE Newer(m) == m # None => /\ m.full_version \in Versions
                                   /\ d.full_version = Unset \/ d.full_version < m.full_version
<1>2. Newer(memo)
  BY DEF Outdated
<1>3. CASE Memoise
  <2>1. memo' = Dictionary(bound, head) /\ bound' = bound
    BY <1>0, <1>3 DEF Memoise, IsDownloaded
  <2>2. bound
    BY <1>3 DEF Memoise, Outdated
  <2>3. memo'.full_version = head
    BY <1>0, <2>1, <2>2 DEF Dictionary, Recursed, Methods, SourceVersion, VersionAt
  <2>4. Newer(memo')
    BY <1>0, <2>3 DEF Behind, TypeOK
  <2>5. QED
    BY <1>1, <2>1, <2>2, <2>4 DEF Outdated
<1>4. CASE EndRun
  BY <1>1, <1>4 DEF EndRun, Outdated
<1>5. CASE \E o \in BOOLEAN : Begin(o)
  <2>1. memo' = memo /\ bound'
    BY <1>0, <1>5 DEF Begin, IsDownloaded
  <2>2. QED
    BY <1>1, <1>2, <2>1 DEF Outdated
<1>6. CASE memo' = memo /\ (bound => bound') /\ (pc' # "idle" => pc # "idle")
  BY <1>1, <1>2, <1>6 DEF Outdated
<1>7. CASE Download \/ DryRun \/ MustRebuild \/ Defer \/ (Execute /\ ~EndRun)
  BY <1>6, <1>7 DEF Download, DryRun, MustRebuild, Defer, Execute, Goto, Kept
<1>8. CASE \E owner \in {"build", "settings"}, s \in Texts : SetAttr(owner, s)
  BY <1>4, <1>6, <1>8 DEF SetAttr
<1>9. CASE UNCHANGED <<pc, memory>>
  BY <1>6, <1>9 DEF memory
<1>10. QED
  BY <1>3, <1>4, <1>5, <1>7, <1>8, <1>9, MemoryKept DEF Step, NothingToDo, WriteChecksum

LEMMA VouchStep ==
  ASSUME IInv, [Next]_vars
  PROVE  VouchInv'
<1>0. /\ TypeOK /\ HeadInv /\ MemoInv /\ DryInv /\ PassInv /\ VouchInv
      /\ UNCHANGED <<class, module, tree>>
  BY StepMoves DEF IInv
<1>1. CASE WriteChecksum
  <2> DEFINE d == Asked(memo)
  <2>1. pc = "certify" /\ file' = Checksum(dry) /\ ball' = ball /\ pc' = "idle" /\ memo' = None
    BY <1>1 DEF WriteChecksum, Written, EndRun
  <2>2. memo \in Dictionaries /\ ListOf(dry, d)
    BY <1>0, <2>1 DEF DryInv, TypeOK
  <2>3. /\ IsDict(d) /\ d.full_version = memo.full_version
        /\ d.full_version \in Versions \cup {Unset}
    BY <2>2, AskedIsDict DEF Dictionaries
  <2>4. ball.work = WorkOf(dry) \/ Behind(d)
    BY <1>0, <2>1, <2>3 DEF PassInv, Behind, WorkOf
  <2>5. \A e, k : e = d /\ k = dry => ListOf(k, e)' /\ (Behind(e) => Outdated(e)')
    <3>1. ASSUME NEW e, NEW k, e = d, k = dry PROVE ListOf(k, e)'
      BY <1>0, <2>2, <3>1, ListOfKept
    <3>2. ASSUME NEW e, e = d, Behind(e) PROVE Outdated(e)'
      <4>1. Behind(e)'
        BY <1>0, <2>3, <3>2, BehindKept
      <4>2. QED
        BY <2>1, <4>1 DEF Outdated
    <3>3. QED
      BY <3>1, <3>2
  <2>6. \E k, e : /\ k = dry /\ e = d /\ IsDict(e) /\ e.full_version \in Versions \cup {Unset}
                  /\ ListOf(k, e)' /\ file' = Checksum(k)
                  /\ (ball.work)' = WorkOf(k) \/ Outdated(e)'
    BY <2>1, <2>3, <2>4, <2>5
  <2>7. QED
    BY <2>1, <2>6 DEF VouchInv
<1>2. CASE pc # "certify" /\ pc' # "certify" /\ ~WriteChecksum /\ file' # None
  <2>1. UNCHANGED <<file, ball>>
    <3>1. CASE Memoise \/ Download \/ DryRun \/ NothingToDo \/ MustRebuild \/ Defer
      BY <3>1 DEF Memoise, Download, DryRun, NothingToDo, MustRebuild, Defer, disk
    <3>2. CASE Execute
      BY <1>2, <3>2 DEF Execute, Goto
    <3>3. CASE \E o \in BOOLEAN : Begin(o)
      BY <3>3 DEF Begin, disk
    <3>4. CASE \E owner \in {"build", "settings"}, s \in Texts : SetAttr(owner, s)
      BY <3>4 DEF SetAttr, disk
    <3>5. QED
      BY <1>2, <3>1, <3>2, <3>3, <3>4, MemoryKept DEF Step
  <2>2. PICK l, d : /\ IsDict(d) /\ d.full_version \in Versions \cup {Unset}
                    /\ ListOf(l, d) /\ file = Checksum(l)
                    /\ ball.work = WorkOf(l) \/ Outdated(d)
    <3>1. pc # "certify" /\ file # None
      BY <1>2, <2>1
    <3>2. VouchInv
      BY <1>0
    <3>3. QED
      BY <3>1, <3>2 DEF VouchInv
  <2>3. ListOf(l, d)'
    BY <1>0, <2>2, ListOfKept
  <2>4. Outdated(d) => Outdated(d)'
    BY <1>2, <2>2, OutdatedKept
  <2>5. QED
    BY <2>1, <2>2, <2>3, <2>4 DEF VouchInv
<1>3. CASE pc' = "certify" \/ file' = None
  BY <1>3 DEF VouchInv
<1>4. CASE pc = "certify" /\ pc' # "certify"
  <2>1. WriteChecksum
    <3>1. ~(\E o \in BOOLEAN : Begin(o))
          /\ ~(\E owner \in {"build", "settings"}, s \in Texts : SetAttr(owner, s))
      BY <1>4 DEF Begin, SetAttr
    <3>2. Step
      BY <1>4, <3>1, MemoryKept
    <3>3. QED
      BY <1>4, <3>2 DEF Step, Memoise, Download, DryRun, NothingToDo, MustRebuild, Defer,
                        Execute
  <2>2. QED
    BY <1>1, <2>1
<1>5. QED
  BY <1>1, <1>2, <1>3, <1>4

-----------------------------------------------------------------------------
(* Theorems                                                                  *)

LEMMA StepIInv == IInv /\ [Next]_vars => IInv'
<1> SUFFICES ASSUME IInv, [Next]_vars PROVE IInv'
  OBVIOUS
<1>1. TypeOK' /\ HeadInv' /\ MemoInv' /\ DryInv' /\ PassInv' /\ VouchInv'
  BY TypeStep, HeadStep, MemoStep, DryStep, PassStep, VouchStep
<1>2. QED
  BY <1>1 DEF IInv

\* What a run keeps in memory and on disk has its type at every step: the
\* dictionary has all of its fields with the values they can have, and the
\* checksum file tells of stages only.
THEOREM TypeCorrect == Spec => []TypeOK
<1>1. IInv => TypeOK
  BY DEF IInv
<1>2. QED
  BY <1>1, InitIInv, StepIInv, PTL DEF Spec

LEMMA IInvMatches == IInv => MatchIsWork
<1> SUFFICES ASSUME IInv, pc = "decide", Matches
             PROVE  ball.work = WorkOf(dry)
  BY DEF MatchIsWork, WorkOf
<1>1. memo \in Dictionaries /\ ListOf(dry, Asked(memo))
  BY DEF IInv, DryInv, TypeOK
<1>2. IsDict(Asked(memo)) /\ Asked(memo).full_version = memo.full_version
  BY <1>1, AskedIsDict
<1>3. PICK l, d : /\ IsDict(d) /\ d.full_version \in Versions \cup {Unset}
                  /\ ListOf(l, d) /\ file = Checksum(l)
                  /\ ball.work = WorkOf(l) \/ Outdated(d)
  BY DEF IInv, VouchInv, Matches
<1>4. Checksum(l) = Checksum(dry)
  BY <1>3 DEF Matches
<1>5. d = Asked(memo) /\ Each(Shown, l) = Each(Shown, dry)
  BY <1>1, <1>2, <1>3, <1>4, SameText
<1>6. ~Outdated(d)
  <2>1. d.full_version = memo.full_version
    BY <1>2, <1>5
  <2>2. memo # None
    BY <1>1, NoneAssumption
  <2>3. QED
    BY <2>1, <2>2, ValuesAssumption, BoundsAssumption DEF Outdated, Versions
<1>7. WorkOf(l) = WorkOf(dry)
  <2>1. ASSUME NEW k
        PROVE  WorkOf(k) = [s \in DOMAIN Each(Shown, k) \ {"src_package"} |-> Each(Shown, k)[s]]
    BY DEF WorkOf, Each, Unskipped
  <2>2. QED
    BY <1>5, <2>1
<1>8. QED
  BY <1>3, <1>6, <1>7

\* A checksum that matches vouches for the package, whatever the recipe is, its
\* class and its source, and however sources, recipe, environment and attributes
\* change: the package was made by the commands that this run would execute.
THEOREM MatchVouches == Spec => []MatchIsWork
<1>1. QED
  BY InitIInv, StepIInv, IInvMatches, PTL DEF Spec

=============================================================================
