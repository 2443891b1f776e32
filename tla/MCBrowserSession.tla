--------------------------- MODULE MCBrowserSession ---------------------------
(***************************************************************************)
(* The instance of BrowserSession that TLC checks: the two fixed tabs of   *)
(* the report and two regions, one of which has a title that is escaped in *)
(* links; a JMX page with two tabs, each with a list of under-tabs, so     *)
(* that one is shown by the loading and one by the first click.            *)
(***************************************************************************)
EXTENDS BrowserSession, TLC

CONSTANTS agent, sdk, region, spaced, general, beans, heap, stack, used, limit

MCTitles == {agent, sdk, region, spaced}
MCFixed == {agent, sdk}
MCUnlinked == {spaced}
MCJmxLists == {Root, beans, general}
MCJmxTabs ==
    (Root :> <<beans, general>>)
    @@ (beans :> <<heap, stack>>)
    @@ (general :> <<used, limit>>)
MCJmxUnlinked == {stack}
=============================================================================
