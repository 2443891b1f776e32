------------------------------- MODULE PageDom -------------------------------
(***************************************************************************)
(* The document of the browser tab that shows the diagnostic pages, as far *)
(* as the page scripts touch it: which tabs of the lists (li) have the     *)
(* class "current", which contents (div) are displayed and which tabs got  *)
(* an error icon.  A tab and its content share their title.                *)
(***************************************************************************)

VARIABLES page,     \* "health", "jmx", or "closed": no document
          loaded,   \* the load event of the document has been handled
          marked,   \* titles of the tabs with the class "current"
          shown,    \* titles of the contents that are displayed
          icons     \* titles of the tabs with an error icon

dom == <<page, loaded, marked, shown, icons>>

\* The document is parsed: no script has run, everything is displayed.
NewDocument(name, contents) ==
    /\ page' = name
    /\ loaded' = FALSE
    /\ marked' = {}
    /\ shown' = contents
    /\ icons' = {}

\* goog.dom.classes: the class is removed from the tabs of a list, then one tab
\* gets it.
MarkOnly(current, all, one) == (current \ all) \cup {one}

\* goog.style.showElement, for all the contents of a list and then for one.
ShowOnly(displayed, all, one) == (displayed \ all) \cup one

\* goog.dom.getElementsByTagNameAndClass("tr", "error", element): for a title
\* that names no element the whole document is searched.
RowsIn(t, unlinked, errors) == IF t \in unlinked THEN errors ELSE errors \cap {t}

\* The tabs that get an error icon.
ErrorIcons(titles, unlinked, errors) ==
    {t \in titles : RowsIn(t, unlinked, errors) # {}}
=============================================================================
