------------------------------- MODULE DataTable -------------------------------
(***************************************************************************)
(* The paginated table of the admin console: which rows of a list a page   *)
(* shows, and how the page number moves.  Pages are counted from 1.        *)
(***************************************************************************)
EXTENDS Naturals, Sequences

Smaller(a, b) == IF a < b THEN a ELSE b

Larger(a, b) == IF a > b THEN a ELSE b

TotalPages(rows, size) == Larger(1, (Len(rows) + size - 1) \div size)

\* Faulty variant of SafePage: the page is taken as it was chosen.
SafePageUnclamped(rows, size, page) == page

\* The list may have shrunk since the page was chosen.
SafePage(rows, size, page) == Smaller(page, TotalPages(rows, size))

PageRows(rows, size, page) ==
    LET p == SafePage(rows, size, page)
    IN  SubSeq(rows, (p - 1) * size + 1, Smaller(p * size, Len(rows)))

CanGoBack(rows, size, page) == SafePage(rows, size, page) > 1

PreviousPage(page) == Larger(1, page - 1)

CanGoOn(rows, size, page) == SafePage(rows, size, page) < TotalPages(rows, size)

NextPage(rows, size, page) == Smaller(TotalPages(rows, size), page + 1)
=============================================================================
