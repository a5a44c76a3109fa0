------------------------------ MODULE MCRecipe ------------------------------
(* Instances of Recipe for TLC. *)
EXTENDS Recipe

\* Branches are built as usual, tarballs in every way for a target and in some for
\* the tools; of tools32 and cross one stands for all, and gub/build.py has three.
\* The sources come with configure, but for one for each way to generate it.
Configured == {{"configure", "configure.ac", "Makefile.am"}}
AllRecipes == ({"branch"} \X {"AutoBuild"} \X {"target"} \X Configured)
  \cup ({"tarball"} \X TargetClasses \X {"target"} \X Configured)
  \cup ({"tarball"} \X {"ShBuild", "BinaryBuild"} \X {"tools"} \X Configured)
  \cup {<<"tarball", "AutoBuild", "target", {"configure.ac", "Makefile.am", "Makefile"}>>,
        <<"tarball", "AutoBuild", "tools", {"autogen.sh", "configure.ac"}>>,
        <<"tarball", "AutoBuild", "tools32", {"bootstrap"}>>,
        <<"tarball", "AutoBuild", "cross", {"Makefile"}>>}
  \cup ({"tarball"} \X PlainClasses \X {"build"} \X Configured)
OneRecipe  == {"tarball"} \X {"AutoBuild"} \X {"target"} \X Configured

=============================================================================
