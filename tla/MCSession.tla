----------------------------- MODULE MCSession ------------------------------
(* Options and image sizes for TLC: each limit, and values beside it.      *)
EXTENDS Session

MCOptions ==
  [img_sz : {0, 16384, img_min_sz, img_min_sz + 1}, sec_sz : {0, 100, 512, 4096, 8192},
   align : {0, 8}, hpc : {0, 1}, spt : {0, 63, 64}]

MCFileSizes == {0, 16384, img_min_sz - 1, img_min_sz}
=============================================================================
