------------------------------- MODULE MCExfat -------------------------------
(* Exfat on a volume of three clusters of two bytes and two directory     *)
(* entries each: PAGE is scaled down to the cluster size (as on a volume  *)
(* with 4096-byte clusters), a name entry holds two characters and        *)
(* name[] three.  The root directory is cluster 2.  The images give the   *)
(* root a file set split across clusters, a skipped entry before a file   *)
(* entry, an empty file, a subdirectory and a name longer than name[]     *)
(* holds, and one whose stream entry comes before any file entry.         *)
EXTENDS Exfat

MCDirImages ==
    { (2 :> <<FileEntry(FALSE), StreamEntry(3, 3)>> @@
       3 :> <<NameEntry(2), EndEntry>> @@
       4 :> <<EndEntry, EndEntry>>),
      (2 :> <<FileEntry(FALSE), StreamEntry(4, 5)>> @@
       3 :> <<NameEntry(2), NameEntry(2)>> @@
       4 :> <<FileEntry(TRUE), StreamEntry(3, 2)>>),
      (2 :> <<OtherEntry, FileEntry(FALSE)>> @@
       3 :> <<StreamEntry(2, 4), NameEntry(1)>> @@
       4 :> <<EndEntry, EndEntry>>),
      (2 :> <<FileEntry(FALSE), StreamEntry(3, 0)>> @@
       3 :> <<EndEntry, EndEntry>> @@
       4 :> <<EndEntry, EndEntry>>),
      (2 :> <<StreamEntry(3, 2), FileEntry(FALSE)>> @@
       3 :> <<EndEntry, EndEntry>> @@
       4 :> <<EndEntry, EndEntry>>) }

=============================================================================
