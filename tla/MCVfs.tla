------------------------------- MODULE MCVfs -------------------------------
(***************************************************************************)
(* Three archives: the one of the default build with a file beside it,     *)
(* one whose table is too small for it, with directories and data that     *)
(* looks like a header, and one without a program.                         *)
(***************************************************************************)
EXTENDS Vfs

Member(name, type, size, data) == [name |-> name, type |-> type, size |-> size, data |-> data]

InitFile == Member(<<Sbin, Sep, <<"init", 4>>>>, "file", 2, "data")

MCArchives ==
  { <<InitFile, Member(<<<<"motd", 4>>>>, "file", 3, "header")>>,
    <<Member(<<Sbin, Sep>>, "dir", 0, "data"), InitFile,
      Member(<<Bin, Sep, <<"vish", 4>>>>, "file", 1, "header"),
      Member(<<Etc, Sep, <<"rc", 2>>>>, "file", 1, "data")>>,
    <<Member(<<Bin, Sep, <<"vish", 4>>>>, "file", 0, "data")>> }

Init_ == <<"init", 4>>
MCPaths ==
  { <<>>, <<Sep>>, <<DotDot>>, <<Sbin>>, <<Dev>>, <<Init_>>, <<Sep, Dot, Sep, Sbin, Sep>>,
    InitPath, <<Sep, Sep, Sbin, Sep, Init_, Sep>>, <<Sep, Bin, Sep, <<"vish", 4>>>>,
    <<Sep, Etc, Sep, <<"rc", 2>>>>, <<Sep, <<"motd", 4>>>>,
    <<Sep, Dev, Sep, Null>>, <<Sep, Dev, Sep, Null, Sep, Zero>>,
    <<Sep, Sbin, Sep, Init_, Sep, Dev>>, <<Sep, Dev, Sep, Bin, Sep, Etc, Sep, <<"x", 1>>>> }
=============================================================================
