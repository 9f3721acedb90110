------------------------------ MODULE PageMap -------------------------------
(***************************************************************************)
(* Mapping sectors of the image (map_secs and unmap_secs of gpt.c).  mmap  *)
(* takes an offset that is a multiple of the page size; a sector may lie   *)
(* anywhere in a page, or take several.  Offsets and lengths are in bytes; *)
(* the address of a mapping is taken to be the offset of its first byte.   *)
(***************************************************************************)
EXTENDS Integers

byte_to_page(pg_sz, bytes, round_up) ==
  bytes \div pg_sz + (IF round_up /\ bytes % pg_sz # 0 THEN 1 ELSE 0)

page_to_byte(pg_sz, pages) == pages * pg_sz

\* BUG variant: the length is that of the sectors alone.
map_len_pages_unshifted(pg_sz, off_bytes, len_bytes) ==
  byte_to_page(pg_sz, len_bytes, TRUE)

\* Pages a range of bytes takes, counted from the page its first byte is in.
map_len_pages(pg_sz, off_bytes, len_bytes) ==
  LET align_off == off_bytes - page_to_byte(pg_sz, byte_to_page(pg_sz, off_bytes, FALSE))
  IN  byte_to_page(pg_sz, len_bytes + align_off, TRUE)

\* map_secs: what is mapped, and where in it the first sector is.
map_secs(pg_sz, off_bytes, len_bytes) ==
  LET off == page_to_byte(pg_sz, byte_to_page(pg_sz, off_bytes, FALSE))
  IN  [addr |-> off,
       len  |-> page_to_byte(pg_sz, map_len_pages(pg_sz, off_bytes, len_bytes)),
       reg  |-> off + (off_bytes - off)]

\* BUG variant: the address map_secs returned is unmapped as it is.
unmap_secs_unshifted(pg_sz, reg, off_bytes, len_bytes) ==
  [addr |-> reg, len |-> map_len_pages(pg_sz, off_bytes, len_bytes)]

\* unmap_secs: what munmap is called with.  Its length is a number of pages,
\* where munmap takes bytes.
unmap_secs(pg_sz, reg, off_bytes, len_bytes) ==
  LET align_off == off_bytes - page_to_byte(pg_sz, byte_to_page(pg_sz, off_bytes, FALSE))
  IN  [addr |-> reg - align_off, len |-> map_len_pages(pg_sz, off_bytes, len_bytes)]

\* munmap works on whole pages: the end of the region it removes.
munmap_end(pg_sz, addr, len) == addr + page_to_byte(pg_sz, byte_to_page(pg_sz, len, TRUE))
=============================================================================
