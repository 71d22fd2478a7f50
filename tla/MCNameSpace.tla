---------------------------- MODULE MCNameSpace ----------------------------
(* A model-checking instance of NameSpace: a small volume and the calls.    *)
EXTENDS NameSpace, TLC

de(name, ino, off) == [name |-> name, ino |-> ino, off |-> off]
page(entries, end) == [entries |-> entries, end |-> end]
inode(kind, pages) == [kind |-> kind, pages |-> pages]

MCRecLen(name) == 3

(* /a, /a/b, /f, a deleted /x and a symbolic link /s; the root directory has *)
(* two pages                                                               *)
MCDisk ==
  (2 :> inode("dir", << page(<<de("x", 0, 0), de("a", 3, 3)>>, 6),
                        page(<<de("f", 5, 0), de("s", 6, 3), de("g", 5, 6)>>, 9) >>)
   @@ 3 :> inode("dir", << page(<<de("b", 4, 0)>>, 3) >>)
   @@ 4 :> inode("dir", << page(<<de("x", 0, 0)>>, 3) >>)
   @@ 5 :> inode("reg", <<>>) @@ 6 :> inode("lnk", <<>>))

Dirs == {Abs(<<"a">>), Abs(<<"a", "b">>), Abs(<<>>), Abs(<<"f">>), Abs(<<"x">>)}
src == Abs(<<"f">>)

mount(path, dev, type) == [op |-> "mount", path |-> path, dev |-> dev, type |-> type]
move(path, dev) == [op |-> "move", path |-> path, dev |-> dev]

Mounting ==
  {mount(p, src, "ramfs") : p \in Dirs}
  \cup {mount(Abs(<<"a">>), src, ty) : ty \in {"proc", "ext2", "xfs", "NULL"}}
  \cup {mount(Abs(<<"a">>), NULL, "ext2"), mount(Abs(<<"a">>), Abs(<<"dev", "root">>), "ext2"),
        mount(Rel(<<>>), src, "ramfs")}

Moving ==
  {move(Abs(<<"a">>), Abs(<<>>)), move(Abs(<<"a", "b">>), Abs(<<"a">>)),
   move(Abs(<<"f">>), Abs(<<"a">>)), move(Abs(<<"a">>), Abs(<<"f">>)),
   move(Abs(<<"a">>), NULL)}

Others ==
  {[op |-> "open", path |-> p, acc |-> {"READ", "WRITE"}] :
     p \in {Abs(<<"f">>), Abs(<<"g">>), Rel(<<"a", "b">>), Abs(<<"s">>), Rel(<<>>)}}
  \cup {[op |-> "readlink", path |-> p] :
     p \in {Abs(<<"x", "b">>), Abs(<<"f", "b">>), Abs(<<"long">>), Abs(<<"a", "..">>)}}
  \cup {[op |-> "write", fd |-> n] : n \in {1, 9}}

MCSyscalls == Mounting \cup Moving \cup Others
=============================================================================
