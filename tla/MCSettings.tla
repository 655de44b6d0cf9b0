------------------------------ MODULE MCSettings ------------------------------
EXTENDS Settings

\* One control captured in the page, another by --bind.
FromPage == {<<1, 1>>}
FromCli == {<<2, 1>>}
===============================================================================
