--------------------------- MODULE MCDynSections ---------------------------
(* Two directories, one with directories in it and files beside them, four levels *)
(* deep in one place and two in another; a section and a list of members.         *)
EXTENDS DynSections

MCTable == << <<0>>, <<0, 0>>, <<0, 0, 0>>, <<0, 0, 0, 0>>, <<0, 0, 1>>, <<0, 1>>, <<0, 1, 0>>, <<0, 2>>,
              <<1>>, <<1, 0>>, <<1, 0, 0>> >>
MCFolders == {<<0>>, <<0, 0>>, <<0, 0, 0>>, <<0, 1>>, <<1>>, <<1, 0>>}
=============================================================================
