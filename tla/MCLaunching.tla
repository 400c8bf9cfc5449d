---------------------------- MODULE MCLaunching -----------------------------
(* Launching with three objects on an edge, two requests under one key, two  *)
(* jobs that upload, two syncs of one inventory, and a guard of two rungs.   *)
EXTENDS Launching

CONSTANTS a1, pixel, instagram

MCItem == {1, 2, 3}

(* An account with a pixel, and pages with an Instagram account; the account has the Instagram *)
(* account instead, and no pixel any more; or the account is gone and the pages have it.        *)
MCTruth ==
  {{<<No, a1>>, <<pixel, a1>>, <<instagram, No>>},
   {<<No, a1>>, <<instagram, a1>>},
   {<<instagram, No>>}}
=============================================================================
