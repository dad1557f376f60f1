-------------------------------- MODULE Json --------------------------------
(***************************************************************************)
(* src/src/hy_cjson.c: the item a field such as "net.dns[1]" names in a    *)
(* parsed document, and the typed value in it.                             *)
(*                                                                         *)
(* A field is the sequence of its parts between the dots, each a name and  *)
(* the number in its brackets, -1 without them.  An item is its type, its  *)
(* children (name and item), and its value.                                *)
(***************************************************************************)
EXTENDS Integers, SequencesExt

NoItem == [type |-> "none", child |-> <<>>, value |-> <<>>]

(* cJSON_GetObjectItem: the first child of that name *)
cJSON_GetObjectItem(item, name) ==
  LET k == SelectInSeq(item.child, LAMBDA c : c.name = name)
  IN  IF k = 0 THEN NoItem ELSE item.child[k].item

(* cJSON_GetArrayItem: the child at that place, counted from 0 *)
cJSON_GetArrayItem(item, index) ==
  IF index < Len(item.child) THEN item.child[index + 1].item ELSE NoItem

(* One part: brackets with a negative number count as none, and below a    *)
(* missing item everything is missing.                                     *)
Child(parent, part) ==
  IF part.index >= 0
  THEN cJSON_GetArrayItem(cJSON_GetObjectItem(parent, part.name), part.index)
  ELSE cJSON_GetObjectItem(parent, part.name)

_get_item(root, field) == FoldLeft(Child, root, field)

(* HyJsonGetInt, HyJsonGetDouble and HyJsonGetString take an item of their *)
(* own type only.                                                          *)
Gets(root, field, type) == _get_item(root, field).type = type
=============================================================================
