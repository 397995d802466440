---------------------------- MODULE MCIndexPage ----------------------------
EXTENDS IndexPage

July == [Word EXCEPT !.month = 7]
February == [Word EXCEPT !.month = 2]
Day(d) == [Word EXCEPT !.day = d]
Year(y) == [Word EXCEPT !.year = y]

\* "5-Prices-of-5-July-30-2024-5.pdf", and a day February does not have.
MCNames == {<<Day(5), Word, Day(5), July, Day(30), Year(2024), Day(5)>>,
            <<Day(30), February, Year(2024)>>}

Permuted == Permutations(Urls)
=============================================================================
