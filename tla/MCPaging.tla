------------------------------ MODULE MCPaging ------------------------------
\* A small machine for Paging: tables of five entries, the stack and the frame
\* buffer above the low memory.  Programs of the first two kinds lie in the last
\* huge page, which no machine here reaches; the third maps a page at the
\* address of frame 13, which all but the smallest machine hand out.
EXTENDS Paging

MCFbPage == <<0, 3, 0, 0>>
MCSegments == {<<<<0, 0, 4, 0>>>>, <<<<0, 0, 4, 0>>, <<0, 0, 4, 1>>>>,
               <<<<0, 0, 2, 3>>>>}
MCStackPages == <<<<0, 1, 4, 4>>>>

=============================================================================
