----------------------------- MODULE MCNavTree -----------------------------
(***************************************************************************)
(* A small instance of NavTree: the list of files and the members of       *)
(* client.c, each in a script of its own.  One of the members has a second *)
(* item, which the index does not know, as those of task_t do; the main    *)
(* page is not in the index either, so that the root stands for it.        *)
(***************************************************************************)
EXTENDS NavTree

FileList == <<0, 1>>
Client == <<0, 1, 0>>
Main == <<0, 1, 0, 0>>
Second == <<0, 0>>
SmallNodes == {<< >>, <<0>>, Second, FileList, Client, Main}
SmallLazy == {FileList, Client}
SmallLink == [q \in SmallNodes \ {<< >>} |->
  CASE q = <<0>> -> <<"index", NONE>>
    [] q = FileList -> <<"files", NONE>>
    [] q = Client -> <<"client", NONE>>
    [] q \in {Main, Second} -> <<"client", "main">>]
SmallIndex == [url \in {<<"files", NONE>>, <<"client", NONE>>, <<"client", "main">>} |->
  CASE url[1] = "files" -> Tail(FileList)
    [] url[2] = "main" -> Tail(Main)
    [] OTHER -> Tail(Client)]
=============================================================================
