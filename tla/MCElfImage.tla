---------------------------- MODULE MCElfImage ----------------------------
(***************************************************************************)
(* An instance of module ElfImage for TLC: pages of two bytes, a file of   *)
(* two pages, headers of every alignment, order and overlap.               *)
(***************************************************************************)
EXTENDS ElfImage

Phdrs(offsets, vaddrs, sizes) ==
  [p_type : {"PT_LOAD", "PT_NOTE"}, p_offset : offsets, p_vaddr : vaddrs,
   size : sizes, PF_W : BOOLEAN]

WithSizes(phdr) ==
  [p_type |-> phdr.p_type, p_offset |-> phdr.p_offset,
   p_vaddr |-> phdr.p_vaddr, p_filesz |-> phdr.size[1],
   p_memsz |-> phdr.size[2], PF_W |-> phdr.PF_W]

Many == {WithSizes(h) : h \in Phdrs(0..3, 3..8,
          {<<f, f + more>> : <<f, more>> \in (0..2) \X {0, 1, 3}})}
Few == {WithSizes(h) : h \in Phdrs({0, 3}, {4, 5, 8},
                                   {<<0, 0>>, <<1, 1>>, <<2, 2>>})}

GoodHeader == [signature |-> TRUE, class |-> "ELFCLASS32",
               data |-> "ELFDATA2LSB", e_phoff |-> 52]

AnyHeader == [signature : BOOLEAN,
              class : {"ELFCLASSNONE", "ELFCLASS32", "ELFCLASS64"},
              data : {"ELFDATANONE", "ELFDATA2LSB", "ELFDATA2MSB"},
              e_phoff : {0, 52}]

MCFiles == {[header |-> GoodHeader, phdrs |-> <<x, y>>] : <<x, y>> \in Many \X Few}
             \cup {[header |-> h, phdrs |-> <<>>] : h \in AnyHeader}

=============================================================================
