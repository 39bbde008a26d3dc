--------------------------- MODULE MCAddressSpace ---------------------------
EXTENDS AddressSpace

\* Segments are [vaddr, memsz] in address units, two units to a page.
\* A text segment at page 0 whose end is page aligned.
MCAlignedImage == << [vaddr |-> 0, memsz |-> 2] >>
\* Text in page 0, then a data segment whose vaddr is not page aligned,
\* as linkers lay out a read-write segment after the text.
MCUnalignedImage == << [vaddr |-> 0, memsz |-> 2], [vaddr |-> 3, memsz |-> 2] >>
\* Two segments that end and start inside the same page.
MCSharedPageImage == << [vaddr |-> 0, memsz |-> 1], [vaddr |-> 1, memsz |-> 1] >>

MCImages == {MCAlignedImage, MCUnalignedImage}
MCSharedImages == {MCSharedPageImage}
MCUnalignedImages == {MCUnalignedImage}
=============================================================================
