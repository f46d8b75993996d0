--------------------------- MODULE MCPagePipeline ----------------------------
(* Two requests for one page of a book, one for a page of another book and *)
(* one Meta call, competing for two permits.                               *)
EXTENDS PagePipeline

MCPriorities == {0, 1}

MCInit ==
    /\ PipeInit
    /\ book = <<"b1", "b1", "b2">>
    /\ pri = <<1, 0, 0>>
    /\ page = <<"p1", "p1", "p1">>
    /\ metaBook = <<"b1">>

MCSpec == MCInit /\ [][PipeNext]_pipeVars /\ PipeFairness
=============================================================================
