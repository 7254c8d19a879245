----------------------------- MODULE MCMetadata -----------------------------
(* Small instances of Metadata for TLC. *)
EXTENDS Metadata

ThreeTracks  == <<"video", "metadata", "chapters">>
TitleAndTag  == [key \in {"title", "nam", "abcd", "xyz"} |->
                   CASE key = "title" -> "nam" [] key = "nam" -> "title"
                     [] OTHER -> "none"]
FileAndVideo == {0, 1}
=============================================================================
