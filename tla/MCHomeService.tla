--------------------------- MODULE MCHomeService ---------------------------
EXTENDS HomeService

AllCategories == [quote : BOOLEAN, confirmation : BOOLEAN]
=============================================================================
