--------------------------- MODULE DataTable_proofs ---------------------------
(***************************************************************************)
(* What holds of every paginated table, for any rows and any page size.    *)
(***************************************************************************)
EXTENDS DataTable, SequenceTheorems, TLAPS

\* Rounding up: the last of ceil(n / size) pages starts before the n-th row ends.
LEMMA PagesReach ==
  ASSUME NEW n \in Nat \ {0}, NEW size \in Nat \ {0}
  PROVE  LET q == (n + size - 1) \div size
         IN  q \in Nat \ {0} /\ (q - 1) * size < n
  OBVIOUS

\* A table has a page, and a chosen page leads to one of them.
LEMMA PageNumbers ==
  ASSUME NEW T, NEW rows \in Seq(T), NEW size \in Nat \ {0}, NEW page \in Nat \ {0}
  PROVE  /\ TotalPages(rows, size) \in Nat \ {0}
         /\ SafePage(rows, size, page) \in 1..TotalPages(rows, size)
         /\ PreviousPage(page) \in Nat \ {0} /\ NextPage(rows, size, page) \in Nat \ {0}
  <1>1. (Len(rows) + size - 1) \div size \in Int
    OBVIOUS
  <1>2. TotalPages(rows, size) \in Nat \ {0}
    BY <1>1 DEF TotalPages, Larger
  <1> QED BY <1>2 DEF SafePage, PreviousPage, NextPage, Smaller, Larger

\* More pages, more rows.
LEMMA PagesGrow ==
  ASSUME NEW a \in Nat, NEW b \in Nat, a <= b, NEW size \in Nat \ {0}
  PROVE  /\ a * size \in Nat /\ a * size <= b * size
         /\ a * size + 1 <= (a + 1) * size
  <1>1. b * size = a * size + (b - a) * size
    OBVIOUS
  <1>2. (b - a) * size >= 0 /\ a * size \in Nat /\ b * size \in Nat
    OBVIOUS
  <1> QED BY <1>1, <1>2

\* A table with rows shows some of them on whatever page was chosen.
LEMMA PageShowsRows ==
  ASSUME NEW T, NEW rows \in Seq(T), rows # <<>>, NEW size \in Nat \ {0}, NEW page \in Nat \ {0}
  PROVE  PageRows(rows, size, page) # <<>>
  <1> DEFINE p == SafePage(rows, size, page)
             n == Len(rows)
  <1>1. n \in Nat \ {0}
    BY EmptySeq
  <1>2. p \in 1..TotalPages(rows, size)
    BY PageNumbers
  <1>3. (p - 1) * size < n
    <2>1. TotalPages(rows, size) = (n + size - 1) \div size
      BY <1>1, PagesReach DEF TotalPages, Larger
    <2> DEFINE last == TotalPages(rows, size)
    <2>2. last \in Nat \ {0} /\ (last - 1) * size < n
      BY <1>1, <2>1, PagesReach
    <2> HIDE DEF p, last, n
    <2>3. p - 1 \in Nat /\ last - 1 \in Nat /\ p - 1 <= last - 1
      BY <1>2, <2>2 DEF last
    <2>4. (p - 1) * size <= (last - 1) * size
      BY <2>3, PagesGrow
    <2>5. (p - 1) * size \in Int /\ (last - 1) * size \in Int
      BY <2>3, PagesGrow
    <2> QED BY <1>1, <2>2, <2>4, <2>5
  <1> DEFINE first == (p - 1) * size + 1
             end == Smaller(p * size, n)
  <1>4. first \in Nat /\ first >= 1 /\ first <= n /\ first <= p * size /\ p * size \in Int
    <2> HIDE DEF p, n
    <2>1. p - 1 \in Nat /\ (p - 1) + 1 = p /\ p \in Nat
      BY <1>2
    <2>2. (p - 1) * size \in Nat /\ (p - 1) * size + 1 <= p * size
      BY <2>1, PagesGrow
    <2>3. p * size \in Int
      BY <2>1
    <2> QED BY <1>1, <1>3, <2>2, <2>3
  <1>5. first \in Nat /\ end \in Nat /\ first <= end /\ end <= n
    <2> HIDE DEF p, n, first
    <2> QED BY <1>1, <1>4 DEF Smaller
  <1>6. PageRows(rows, size, page) = SubSeq(rows, first, end)
    BY DEF PageRows
  <1>7. Len(SubSeq(rows, first, end)) # 0
    <2> HIDE DEF p, first, end
    <2> QED BY <1>1, <1>4, <1>5
  <1>8. SubSeq(rows, first, end) # <<>>
    <2> HIDE DEF first, end
    <2> QED BY <1>7, Len(<<>>) = 0
  <1> QED BY <1>6, <1>8, Zenon
===============================================================================
